---- MODULE Spec2Model ----
(***************************************************************************)
(* Model of pygpc's adaptive regression algorithm RegAdaptive.run          *)
(* (src/pygpc/Algorithm.py).  One run of the algorithm is a state machine  *)
(* whose positions are the tests of its three nested while loops.          *)
(***************************************************************************)
EXTENDS Integers, Naturals, Sequences, FiniteSets, TLC

\* ------------------------------------------------------------------ bounds
\* Largest number of validated sampling passes explored in one run.
MaxPasses == 5

\* Grid size up to which the specification of unbounded runs counts grid points.
LiveGridCap == 6

\* Grid operations followed by the specification of the grid subsystem.
MaxGridOps == 4

\* Largest number of points a grid constructor is asked for.
MaxNew == 2

\* Largest target size handed to extend_random_grid or assigned to a grid.
MaxGridLen == 3

\* Largest number of candidate points handed to the merge of the sparse grid.
MaxCand == 3

\* Largest node count a 1-D quadrature routine is called with on its own.
MaxNodes == 32

\* Largest level of a sparse grid.
MaxLevel == 3

\* ------------------------------------------------------- program constants
\* delta_eps_target = 1e-1, as the fraction DeltaEpsTargetNum / DeltaEpsTargetDen
DeltaEpsTargetNum == 1
DeltaEpsTargetDen == 10
\* delta_samples = 5e-2, as the fraction DeltaSamplesNum / DeltaSamplesDen
DeltaSamplesNum == 5
DeltaSamplesDen == 100

\* ------------------------------------------------------------ arithmetic
Abs(x) == IF x < 0 THEN -x ELSE x

Min2(a, b) == IF a <= b THEN a ELSE b

Max2(a, b) == IF a >= b THEN a ELSE b

\* np.ceil(num / den) for num >= 0, den > 0
Ceil(num, den) == (num + den - 1) \div den

RECURSIVE SumSeq(_)
SumSeq(s) == IF s = <<>> THEN 0 ELSE Head(s) + SumSeq(Tail(s))

Last(s) == s[Len(s)]

\* ----------------------------------------------------------- multi-indices
\* All tuples of (0..k)^d in lexicographic order.
RECURSIVE Tuples(_, _)
Tuples(d, k) ==
    IF d = 0 THEN << <<>> >>
    ELSE LET prev == Tuples(d - 1, k)
         IN  [j \in 1..(Len(prev) * (k + 1)) |->
                 Append(prev[((j - 1) \div (k + 1)) + 1], (j - 1) % (k + 1))]

\* Number of non-zero entries of a multi-index (its interaction order):
\* np.sum(multi_indices > 0, axis=1)
InteractionOrderOf(mi) == Cardinality({k \in 1..Len(mi) : mi[k] > 0})

\* (sum_k i_k^q)^(1/q) <= order_max for q = 1 / qinv.  qinv = 1 is the total
\* degree; qinv = 2 (q = 0.5) is decided exactly in integers for multi-indices
\* with at most two non-zero entries:
\*   (sqrt a + sqrt b)^2 <= k  <=>  a + b <= k  /\  4ab <= (k - a - b)^2
InNorm(mi, order_max, qinv) ==
    IF qinv = 1 THEN SumSeq(mi) <= order_max
    ELSE LET nz == SelectSeq(mi, LAMBDA v : v > 0)
             a  == IF Len(nz) >= 1 THEN nz[1] ELSE 0
             b  == IF Len(nz) >= 2 THEN nz[2] ELSE 0
         IN  /\ Len(nz) <= 2
             /\ a + b <= order_max
             /\ 4 * a * b <= (order_max - a - b) * (order_max - a - b)

\* get_multi_indices_max_order(dim, order_max, order_max_norm)
get_multi_indices_max_order(dim, order_max, qinv) ==
    SelectSeq(Tuples(dim, order_max), LAMBDA mi : InNorm(mi, order_max, qinv))

\* The basis built by Reg(order = order_start, order_max = order_start,
\* order_max_norm, interaction_order): the index set of the start order
\* filtered by the interaction-order cap.
InitBasis(dim, order_start, qinv, interaction_order) ==
    SelectSeq(get_multi_indices_max_order(dim, order_start, qinv),
              LAMBDA mi : InteractionOrderOf(mi) <= interaction_order)

\* IdxOld that misses the last row of the current basis
IdxOldButLast(current, all_new) ==
    {j \in 1..Len(all_new) : \E i \in 1..(Len(current) - 1) : current[i] = all_new[j]}

\* Row indices of multi_indices_all_new that equal a row of the current basis
\* (idx_old, np.where(... .all(axis=1)) stacked over all current rows).
IdxOld(current, all_new) ==
    {j \in 1..Len(all_new) : \E i \in 1..Len(current) : current[i] = all_new[j]}

\* np.delete(arr, idx, axis=0)
RECURSIVE DeleteRows(_, _, _)
DeleteRows(arr, idx, j) ==
    IF j > Len(arr) THEN <<>>
    ELSE IF j \in idx THEN DeleteRows(arr, idx, j + 1)
         ELSE <<arr[j]>> \o DeleteRows(arr, idx, j + 1)

\* multi_indices_all_new after the deletion of the rows already in the basis
MultiIndicesAllNew(dim, order, qinv, current) ==
    LET all_new == get_multi_indices_max_order(dim, order, qinv)
    IN  DeleteRows(all_new, IdxOld(current, all_new), 1)

\* MultiIndicesAdded that selects with >= instead of ==
MultiIndicesAddedAtLeast(all_new, ioc) ==
    SelectSeq(all_new, LAMBDA mi : InteractionOrderOf(mi) >= ioc)

\* MultiIndicesAdded that selects with <= instead of ==
MultiIndicesAddedAtMost(all_new, ioc) ==
    SelectSeq(all_new, LAMBDA mi : InteractionOrderOf(mi) <= ioc)

\* multi_indices_all_new[interaction_order_list == interaction_order_current]
MultiIndicesAdded(all_new, ioc) ==
    SelectSeq(all_new, LAMBDA mi : InteractionOrderOf(mi) = ioc)

\* AnyNonZero that never reports an empty selection
AnyNonZeroAlways(added) == Len(added) >= 0

\* multi_indices_added.any(): some entry of some row is non-zero
AnyNonZero(added) ==
    \E j \in 1..Len(added) : \E k \in 1..Len(added[j]) : added[j][k] # 0

SeqToSet(s) == {s[j] : j \in 1..Len(s)}

\* ------------------------------------------------------------------ inputs
\* (dim, 1 / order_max_norm): the q-norm differs from the total degree only
\* for dim >= 2
DimNormSet == {<<1, 1>>, <<2, 1>>, <<2, 2>>}

\* (order_start, order_end), including order_start > order_end
OrderSet == {<<0, 1>>, <<0, 2>>, <<1, 2>>, <<2, 2>>, <<2, 1>>, <<6, 6>>}

InteractionOrderSet == {1, 2}

\* options["matrix_ratio"] as a fraction
MatrixRatioSet == {[num |-> 1, den |-> 1], [num |-> 3, den |-> 2]}

\* options["n_grid_gradient"], read only when gradient_enhanced
NGridGradientSet == {4}

\* options["eps"], and the values gpc.validate may return
EpsSet == {1}

ErrVals == {1, 10, 11, 20}

OptionsSet ==
    {[dim |-> dn[1], order_max_norm_inv |-> dn[2],
      order_start |-> oo[1], order_end |-> oo[2],
      interaction_order |-> io, eps |-> ep, adaptive_sampling |-> ad,
      matrix_ratio |-> mr, gradient_enhanced |-> ge, n_grid_gradient |-> ng] :
        dn \in DimNormSet, oo \in OrderSet, io \in InteractionOrderSet,
        ep \in EpsSet, ad \in BOOLEAN, mr \in MatrixRatioSet,
        ge \in BOOLEAN, ng \in NGridGradientSet}

\* ------------------------------------------------------------------- state
VARIABLES
    options,                    \* self.options
    pc,                         \* position in run()
    eps,                        \* last error (eps), options["eps"] + 1 at start
    i_grid,                     \* number of grid points already evaluated
    order,                      \* main order counter
    first_iter,
    extended_basis,
    basis,                      \* gpc.basis.b as the list of its multi-indices
    n_grid,                     \* gpc.grid.n_grid (= len(coords) = len(coords_norm))
    interaction_order_current,  \* gpc.interaction_order_current
    gpc_error,                  \* gpc.error, the error history
    multi_indices_all_new,
    interaction_order_current_max,
    add_samples,
    delta_eps,                  \* a fraction [num, den]
    eps_ref,
    n_grid_new,
    res,                        \* result rows: res[k] is the grid point row k belongs to
    res_bound,                  \* whether the local name res is bound
    fit,                        \* sizes handed to the last gpc.solve
    passes,                     \* executions of the sampling loop body in the current loop
    loop_fits,                  \* fits made in the current sampling loop
    visited,                    \* interaction orders entered at the current order
    branch                      \* branch that computed n_grid_new in the last pass

\* The state of the grid subsystem (Grid.py), followed on its own by SpecGrid.
VARIABLES
    grid,                       \* the Grid object
    rng,                        \* numpy's process-wide generator (np.random)
    made,                       \* every grid produced so far, with the calls that produced it
    op,                         \* the last grid operation
    n_ops                       \* number of grid operations made

runvars == <<options, pc, eps, i_grid, order, first_iter, extended_basis, basis,
             n_grid, interaction_order_current, gpc_error, multi_indices_all_new,
             interaction_order_current_max, add_samples, delta_eps, eps_ref,
             n_grid_new, res, res_bound, fit, passes, loop_fits, visited, branch>>

gridvars == <<grid, rng, made, op, n_ops>>

\* The state of the construction subsystems, each followed on its own.
VARIABLES
    alg,                        \* a Static or RegAdaptive object, from its constructor call on
    quad,                       \* a TensorGrid or SparseGrid constructor call
    merge,                      \* SparseGrid.calc_coords_weights at work on its candidate points
    proj,                       \* RegAdaptiveProjection.run, its basis and reduced dimension
    work                        \* the worker processes of Worker.py and their queue of IDs

restvars == <<alg, quad, merge, proj, work>>

vars == <<runvars, gridvars, restvars>>

\* No algorithm object, no grid constructor call, no merge, no projection run and no worker is followed.
NoAlg == [stage |-> "none"]

NoQuad == [stage |-> "none"]

NoMerge == [stage |-> "none"]

NoProj == [stage |-> "none"]

NoWork == [stage |-> "none"]

RestIdle ==
    /\ alg = NoAlg
    /\ quad = NoQuad
    /\ merge = NoMerge
    /\ proj = NoProj
    /\ work = NoWork

\* seed = None
NoSeed == -1

\* The stream of the generator as the process starts it (seeded by the
\* operating system), apart from the stream of every seed.
OsStream == -2

\* No Grid object has been constructed.
NoGrid == [kind |-> "none", n_grid |-> 0, coords |-> <<>>, coords_norm |-> <<>>,
           coords_id |-> <<>>, hist |-> <<>>]

NoOp == [name |-> "none", n |-> 0, seed |-> NoSeed]

\* Specification Spec follows run() and makes no statement on grid contents.
GridIdle ==
    /\ grid = NoGrid
    /\ rng = [stream |-> OsStream, pos |-> 0]
    /\ made = {}
    /\ op = NoOp
    /\ n_ops = 0

\* ------------------------------------------------- decisions of run()
\* n_grid_init
NGridInit(opt, n_basis) ==
    IF opt.gradient_enhanced
    THEN Max2(Ceil(opt.matrix_ratio.num * n_basis, opt.matrix_ratio.den),
              opt.n_grid_gradient)
    ELSE Ceil(opt.matrix_ratio.num * n_basis, opt.matrix_ratio.den)

\* gpc.interaction_order_current before the first iteration
InteractionOrderStart(opt) == Min2(opt.interaction_order, opt.order_start)

\* InteractionOrderCurrentMax that forgets the order
InteractionOrderCurrentMaxCap(ord, opt) == opt.interaction_order

\* np.min([order, self.options["interaction_order"]])
InteractionOrderCurrentMax(ord, opt) == Min2(ord, opt.interaction_order)

\* while (eps > self.options["eps"]) and order <= self.options["order_end"]
OuterCond(e, ord, opt) == e > opt.eps /\ ord <= opt.order_end

\* InnerCond without the test of the error
InnerCondNoEps(ioc, ioc_max, e, opt) ==
    /\ ioc <= opt.interaction_order
    /\ ioc <= ioc_max

\* condition of the sub-iteration loop
InnerCond(ioc, ioc_max, e, opt) ==
    /\ ioc <= opt.interaction_order
    /\ ioc <= ioc_max
    /\ e > opt.eps

\* delta_eps > delta_eps_target; a zero denominator is numpy's inf (or nan)
DeltaAboveTarget(d) ==
    IF d.den = 0 THEN d.num > 0
    ELSE d.num * DeltaEpsTargetDen > DeltaEpsTargetNum * d.den

\* while add_samples and delta_eps > delta_eps_target and eps > self.options["eps"]
SampleCond(add, d, e, opt) == add /\ DeltaAboveTarget(d) /\ e > opt.eps

\* NGridNewBranch whose stepwise branch tests first_iter instead of not first_iter
NGridNewBranchFirstIter(ext, fi, opt) ==
    IF ext /\ opt.adaptive_sampling THEN "old"
    ELSE IF opt.adaptive_sampling /\ fi THEN "step"
    ELSE "ratio"

\* NGridNewBranch that never retries with the old samples
NGridNewBranchNoRetry(ext, fi, opt) ==
    IF opt.adaptive_sampling /\ ~fi THEN "step"
    ELSE IF opt.adaptive_sampling THEN "old"
    ELSE "ratio"

\* which of the three branches computes n_grid_new
NGridNewBranch(ext, fi, opt) ==
    IF ext /\ opt.adaptive_sampling THEN "old"
    ELSE IF opt.adaptive_sampling /\ ~fi THEN "step"
    ELSE "ratio"

\* NGridNew whose matrix-ratio branch rounds down
NGridNewFloor(br, ng, n_basis, opt) ==
    IF br = "old" THEN ng
    ELSE IF br = "step" THEN ng + Ceil(DeltaSamplesNum * n_basis, DeltaSamplesDen)
    ELSE (n_basis * opt.matrix_ratio.num) \div opt.matrix_ratio.den

\* n_grid_new of the branch
NGridNew(br, ng, n_basis, opt) ==
    IF br = "old" THEN ng
    ELSE IF br = "step" THEN ng + Ceil(DeltaSamplesNum * n_basis, DeltaSamplesDen)
    ELSE Ceil(n_basis * opt.matrix_ratio.num, opt.matrix_ratio.den)

\* PassCond that fits only when grid points were added
PassCondGridOnly(ig, ngn, ext) == ig < ngn

\* if i_grid < n_grid_new or extended_basis
PassCond(ig, ngn, ext) == ig < ngn \/ ext

\* gpc.grid.extend_random_grid(n_grid_new): the new number of grid points
ExtendRandomGrid(ng, ngn) == IF ngn - ng > 0 THEN ngn ELSE ng

\* EvalSlice that hands the whole grid to com.run: coords[0 : len(coords)]
EvalSliceAll(ig, ng) == [k \in 1..ng |-> k]

\* the grid points handed to com.run: coords[i_grid : len(coords)]
EvalSlice(ig, ng) == [k \in 1..(ng - ig) |-> ig + k]

\* BreakImproved that tests not extended_basis instead of extended_basis
BreakImprovedNotExtended(fi, ext, err) ==
    ~fi /\ ~ext /\ err[Len(err)] < err[Len(err) - 1]

\* BreakImproved that leaves the loop on every improvement of the error
BreakImprovedAnyPass(fi, ext, err) ==
    ~fi /\ err[Len(err)] < err[Len(err) - 1]

\* if not first_iter and extended_basis and gpc.error[-1] < gpc.error[-2]
BreakImproved(fi, ext, err) ==
    ~fi /\ ext /\ err[Len(err)] < err[Len(err) - 1]

\* delta_eps = np.abs((gpc.error[-1] - gpc.error[-2]) / eps_ref)
DeltaEps(err, ref) ==
    [num |-> Abs(err[Len(err)] - err[Len(err) - 1]), den |-> ref]

\* sizes of a call of gpc.solve(results=res, ...)
Solve(rows, ng, b, ig) ==
    [n_rows |-> Len(rows), n_grid |-> ng, n_basis |-> Len(b), i_grid |-> ig]

\* ------------------------------------------------------- state after set-up
\* run() up to the first test of the main loop (lines 1889-1935)
Init ==
    /\ options \in OptionsSet
    /\ pc = "outer"
    /\ eps = options.eps + 1
    /\ i_grid = 0
    /\ order = options.order_start
    /\ first_iter = TRUE
    /\ extended_basis = TRUE
    /\ basis = InitBasis(options.dim, options.order_start,
                         options.order_max_norm_inv, options.interaction_order)
    /\ n_grid = NGridInit(options, Len(basis))
    /\ interaction_order_current = InteractionOrderStart(options)
    /\ gpc_error = <<>>
    /\ multi_indices_all_new = <<>>
    /\ interaction_order_current_max = 0
    /\ add_samples = TRUE
    /\ delta_eps = [num |-> DeltaEpsTargetNum + DeltaEpsTargetDen,
                    den |-> DeltaEpsTargetDen]
    /\ eps_ref = 0
    /\ n_grid_new = 0
    /\ res = <<>>
    /\ res_bound = FALSE
    /\ fit = [n_rows |-> 0, n_grid |-> 0, n_basis |-> 0, i_grid |-> 0]
    /\ passes = 0
    /\ loop_fits = 0
    /\ visited = <<>>
    /\ branch = "none"
    /\ GridIdle
    /\ RestIdle

\* --------------------------------------------------------------- main loop
\* The main loop is entered: the new multi-indices of the order and the
\* largest interaction order of the order are computed.
OuterLoopEnter ==
    /\ pc = "outer"
    /\ OuterCond(eps, order, options)
    /\ multi_indices_all_new' =
           MultiIndicesAllNew(options.dim, order, options.order_max_norm_inv, basis)
    /\ interaction_order_current_max' = InteractionOrderCurrentMax(order, options)
    /\ visited' = <<>>
    /\ pc' = "inner"
    /\ UNCHANGED <<options, eps, i_grid, order, first_iter, extended_basis, basis,
                   n_grid, interaction_order_current, gpc_error, add_samples,
                   delta_eps, eps_ref, n_grid_new, res, res_bound, fit, passes,
                   loop_fits, branch>>
    /\ UNCHANGED <<gridvars, restvars>>

\* The main loop is left.
OuterLoopExit ==
    /\ pc = "outer"
    /\ ~OuterCond(eps, order, options)
    /\ pc' = "final"
    /\ UNCHANGED <<options, eps, i_grid, order, first_iter, extended_basis, basis,
                   n_grid, interaction_order_current, gpc_error,
                   multi_indices_all_new, interaction_order_current_max,
                   add_samples, delta_eps, eps_ref, n_grid_new, res, res_bound,
                   fit, passes, loop_fits, visited, branch>>
    /\ UNCHANGED <<gridvars, restvars>>

\* ------------------------------------------------------ sub-iteration loop
\* add_samples, delta_eps_target, delta_eps, delta_samples before the sampling loop
SamplingInit ==
    /\ add_samples' = TRUE
    /\ delta_eps' = [num |-> DeltaEpsTargetNum + DeltaEpsTargetDen,
                     den |-> DeltaEpsTargetDen]
    /\ passes' = 0
    /\ loop_fits' = 0
    /\ pc' = "sample"

\* Sub-iteration at the start order: the basis of the constructor is used as it is.
InnerStart ==
    /\ pc = "inner"
    /\ InnerCond(interaction_order_current, interaction_order_current_max, eps, options)
    /\ order = options.order_start
    /\ visited' = Append(visited, interaction_order_current)
    /\ SamplingInit
    /\ UNCHANGED <<options, eps, i_grid, order, first_iter, extended_basis, basis,
                   n_grid, interaction_order_current, gpc_error,
                   multi_indices_all_new, interaction_order_current_max, eps_ref,
                   n_grid_new, res, res_bound, fit, branch>>
    /\ UNCHANGED <<gridvars, restvars>>

\* Sub-iteration with no multi-index of the current interaction order: continue.
InnerSkip ==
    /\ pc = "inner"
    /\ InnerCond(interaction_order_current, interaction_order_current_max, eps, options)
    /\ order # options.order_start
    /\ ~AnyNonZero(MultiIndicesAdded(multi_indices_all_new, interaction_order_current))
    /\ interaction_order_current' = interaction_order_current + 1
    /\ visited' = Append(visited, interaction_order_current)
    /\ UNCHANGED <<options, pc, eps, i_grid, order, first_iter, extended_basis,
                   basis, n_grid, gpc_error, multi_indices_all_new,
                   interaction_order_current_max, add_samples, delta_eps, eps_ref,
                   n_grid_new, res, res_bound, fit, passes, loop_fits, branch>>
    /\ UNCHANGED <<gridvars, restvars>>

\* gpc.basis.extend_basis(b_added): the new basis functions are appended
ExtendBasis(b, added) == b \o added

\* Sub-iteration that extends the basis by the multi-indices of the current
\* interaction order.
InnerExtend ==
    /\ pc = "inner"
    /\ InnerCond(interaction_order_current, interaction_order_current_max, eps, options)
    /\ order # options.order_start
    /\ LET multi_indices_added ==
               MultiIndicesAdded(multi_indices_all_new, interaction_order_current)
       IN  /\ AnyNonZero(multi_indices_added)
           /\ basis' = ExtendBasis(basis, multi_indices_added)
    /\ extended_basis' = TRUE
    /\ visited' = Append(visited, interaction_order_current)
    /\ SamplingInit
    /\ UNCHANGED <<options, eps, i_grid, order, first_iter, n_grid,
                   interaction_order_current, gpc_error, multi_indices_all_new,
                   interaction_order_current_max, eps_ref, n_grid_new, res,
                   res_bound, fit, branch>>
    /\ UNCHANGED <<gridvars, restvars>>

\* The sub-iteration loop is left: the interaction order is reset and the
\* main order increased.
InnerLoopExit ==
    /\ pc = "inner"
    /\ ~InnerCond(interaction_order_current, interaction_order_current_max, eps, options)
    /\ interaction_order_current' = 1
    /\ order' = order + 1
    /\ pc' = "outer"
    /\ UNCHANGED <<options, eps, i_grid, first_iter, extended_basis, basis, n_grid,
                   gpc_error, multi_indices_all_new, interaction_order_current_max,
                   add_samples, delta_eps, eps_ref, n_grid_new, res, res_bound,
                   fit, passes, loop_fits, visited, branch>>
    /\ UNCHANGED <<gridvars, restvars>>

\* ------------------------------------------------------------ sampling loop
\* One execution of the body of the adaptive sampling loop, e being the
\* error that gpc.validate returns (and appends to gpc.error).
SamplePassWith(e) ==
    LET add1   == IF ~options.adaptive_sampling THEN FALSE ELSE add_samples
        br     == NGridNewBranch(extended_basis, first_iter, options)
        target == NGridNew(br, n_grid, Len(basis), options)
    IN  /\ n_grid_new' = target
        /\ branch' = br
        /\ add_samples' = add1
        /\ passes' = passes + 1
        /\ IF PassCond(i_grid, target, extended_basis)
           THEN LET grow  == i_grid < target
                    grid1 == IF grow THEN ExtendRandomGrid(n_grid, target) ELSE n_grid
                    res1  == IF ~grow THEN res
                             ELSE IF i_grid = 0 THEN EvalSlice(i_grid, grid1)
                             ELSE res \o EvalSlice(i_grid, grid1)
                    ig1   == IF grow THEN grid1 ELSE i_grid
                    err1  == Append(gpc_error, e)
                    brk   == BreakImproved(first_iter, extended_basis, err1)
                IN  /\ n_grid' = grid1
                    /\ res' = res1
                    /\ res_bound' = (res_bound \/ grow)
                    /\ i_grid' = ig1
                    /\ fit' = Solve(res1, grid1, basis, ig1)
                    /\ loop_fits' = loop_fits + 1
                    /\ gpc_error' = err1
                    /\ eps' = e
                    /\ eps_ref' = IF extended_basis THEN e ELSE eps_ref
                    /\ delta_eps' = IF extended_basis THEN delta_eps
                                    ELSE DeltaEps(err1, eps_ref)
                    /\ extended_basis' = IF brk THEN extended_basis ELSE FALSE
                    /\ first_iter' = IF brk THEN first_iter ELSE FALSE
                    /\ pc' = IF brk \/ ~options.adaptive_sampling
                             THEN "after_sample" ELSE "sample"
           ELSE /\ pc' = "sample"
                /\ UNCHANGED <<n_grid, res, res_bound, i_grid, fit, loop_fits,
                               gpc_error, eps, eps_ref, delta_eps,
                               extended_basis, first_iter>>
        /\ UNCHANGED <<options, order, basis, interaction_order_current,
                       multi_indices_all_new, interaction_order_current_max,
                       visited>>

SamplePass ==
    /\ pc = "sample"
    /\ SampleCond(add_samples, delta_eps, eps, options)
    /\ Len(gpc_error) < MaxPasses
    /\ \E e \in ErrVals : SamplePassWith(e)
    /\ UNCHANGED <<gridvars, restvars>>

\* The condition of the sampling loop fails.
SampleLoopExit ==
    /\ pc = "sample"
    /\ ~SampleCond(add_samples, delta_eps, eps, options)
    /\ pc' = "after_sample"
    /\ UNCHANGED <<options, eps, i_grid, order, first_iter, extended_basis, basis,
                   n_grid, interaction_order_current, gpc_error,
                   multi_indices_all_new, interaction_order_current_max,
                   add_samples, delta_eps, eps_ref, n_grid_new, res, res_bound,
                   fit, passes, loop_fits, visited, branch>>
    /\ UNCHANGED <<gridvars, restvars>>

\* After the sampling loop: the interaction order is increased.
InnerAdvance ==
    /\ pc = "after_sample"
    /\ interaction_order_current' = interaction_order_current + 1
    /\ pc' = "inner"
    /\ UNCHANGED <<options, eps, i_grid, order, first_iter, extended_basis, basis,
                   n_grid, gpc_error, multi_indices_all_new,
                   interaction_order_current_max, add_samples, delta_eps, eps_ref,
                   n_grid_new, res, res_bound, fit, passes, loop_fits, visited,
                   branch>>
    /\ UNCHANGED <<gridvars, restvars>>

\* ------------------------------------------------------------ after the loops
\* The final gpc.solve(results=res, ...) and the return of (gpc, coeffs, res).
FinalSolve ==
    /\ pc = "final"
    /\ res_bound
    /\ fit' = Solve(res, n_grid, basis, i_grid)
    /\ pc' = "done"
    /\ UNCHANGED <<options, eps, i_grid, order, first_iter, extended_basis, basis,
                   n_grid, interaction_order_current, gpc_error,
                   multi_indices_all_new, interaction_order_current_max,
                   add_samples, delta_eps, eps_ref, n_grid_new, res, res_bound,
                   passes, loop_fits, visited, branch>>
    /\ UNCHANGED <<gridvars, restvars>>

\* The final gpc.solve reads res, which no pass has bound: the run raises.
FinalUnbound ==
    /\ pc = "final"
    /\ ~res_bound
    /\ pc' = "raised"
    /\ UNCHANGED <<options, eps, i_grid, order, first_iter, extended_basis, basis,
                   n_grid, interaction_order_current, gpc_error,
                   multi_indices_all_new, interaction_order_current_max,
                   add_samples, delta_eps, eps_ref, n_grid_new, res, res_bound,
                   fit, passes, loop_fits, visited, branch>>
    /\ UNCHANGED <<gridvars, restvars>>

Next ==
    \/ OuterLoopEnter
    \/ OuterLoopExit
    \/ InnerStart
    \/ InnerSkip
    \/ InnerExtend
    \/ InnerLoopExit
    \/ SamplePass
    \/ SampleLoopExit
    \/ InnerAdvance
    \/ FinalSolve
    \/ FinalUnbound

Spec == Init /\ [][Next]_vars

\* ================================================================== claims
\* An error at or below options["eps"] has been recorded.
ConvergedRecorded ==
    \E j \in 1..Len(gpc_error) : gpc_error[j] <= options.eps

\* The run has left the main loop.
LeftMainLoop == pc \in {"final", "done", "raised"}

\* C1: the main loop is left only when the last validated error is at or
\* below options["eps"] or the order counter has passed options["order_end"],
\* and once an error at or below eps has been recorded no step of the run
\* extends the basis, extends the grid, evaluates the model or validates again.
C1_StopCondition ==
    /\ [](LeftMainLoop =>
            \/ (gpc_error # <<>> /\ Last(gpc_error) <= options.eps /\ eps = Last(gpc_error))
            \/ order > options.order_end)
    /\ [][ConvergedRecorded =>
            /\ basis' = basis
            /\ n_grid' = n_grid
            /\ res' = res
            /\ i_grid' = i_grid
            /\ gpc_error' = gpc_error]_vars

\* C1 witness: a run that returned because the error converged, with orders left.
C1_Witness ==
    /\ pc = "done"
    /\ ConvergedRecorded
    /\ order <= options.order_end
    /\ Len(gpc_error) >= 3

\* Number of result rows that belong to grid point p.
EvaluationsOf(p) == Cardinality({k \in 1..Len(res) : res[k] = p})

\* A fit has been made.
Fitted == fit.n_basis > 0

\* C2: no grid point is evaluated twice, and at every fit every grid point has
\* been evaluated exactly once, the number of result rows equals the number of
\* grid points and equals the evaluated-points counter i_grid.
C2_EvaluatedOnce ==
    /\ \A p \in 1..n_grid : EvaluationsOf(p) <= 1
    /\ Fitted =>
          /\ \A p \in 1..n_grid : EvaluationsOf(p) = 1
          /\ fit.n_rows = fit.n_grid
          /\ fit.n_rows = fit.i_grid
          /\ fit.n_grid = n_grid
          /\ Len(res) = n_grid
          /\ i_grid = n_grid

\* C2 witness: a fit made after the grid was extended by a later pass.
C2_Witness ==
    /\ Fitted
    /\ branch \in {"step", "ratio"}
    /\ passes >= 1
    /\ order > options.order_start
    /\ fit.n_grid > NGridInit(options, Len(InitBasis(options.dim, options.order_start,
                          options.order_max_norm_inv, options.interaction_order)))

\* A step that executes the body of the sampling loop.
PassStep == pc = "sample" /\ passes' = passes + 1

\* The pass about to run is the first one after a call of extend_basis.
AfterExtension == extended_basis /\ ~first_iter

\* C3: with adaptive sampling, the pass that directly follows a basis
\* extension targets the current grid size: it leaves the grid and the results
\* as they are, makes one fit and one validation; the grid grows only in
\* passes that do not directly follow an extension.
C3_RetryWithOldSamples ==
    /\ [][(options.adaptive_sampling /\ PassStep /\ AfterExtension) =>
            /\ n_grid_new' = n_grid
            /\ n_grid' = n_grid
            /\ res' = res
            /\ i_grid' = i_grid
            /\ fit' = Solve(res, n_grid, basis, i_grid)
            /\ loop_fits' = loop_fits + 1
            /\ Len(gpc_error') = Len(gpc_error) + 1]_vars
    /\ [][(options.adaptive_sampling /\ PassStep /\ extended_basis) =>
            (n_grid_new' = n_grid /\ n_grid' = n_grid)]_vars
    /\ [][(options.adaptive_sampling /\ n_grid' # n_grid) =>
            (PassStep /\ ~extended_basis /\ passes >= 1)]_vars

\* C3 witness: the state after the first pass that follows an extension.
C3_Witness ==
    /\ options.adaptive_sampling
    /\ order > options.order_start
    /\ passes = 1
    /\ loop_fits = 1
    /\ pc \in {"sample", "after_sample"}
    /\ n_grid_new = n_grid

\* The sampling loop in progress follows a call of extend_basis whose first
\* fit did not lower the error (the loop was not left by the break).
UnpaidExtension ==
    /\ options.adaptive_sampling
    /\ order > options.order_start
    /\ pc \in {"sample", "after_sample"}
    /\ passes >= 1
    /\ ~extended_basis

\* The error of the first fit after the extension (the value of eps_ref).
ErrorAtExtension == gpc_error[Len(gpc_error) - passes + 1]

\* The error recorded before the extension.
ErrorBeforeExtension == gpc_error[Len(gpc_error) - passes]

\* The last change of the error is above delta_eps_target of the reference.
ChangeAboveTarget ==
    Abs(Last(gpc_error) - gpc_error[Len(gpc_error) - 1]) * DeltaEpsTargetDen
        > DeltaEpsTargetNum * ErrorAtExtension

\* C4 as stated: after a basis extension that did not lower the error, the
\* sampling loop exits as soon as a later pass improves the error (below the
\* previous error and below the error before the extension).
C4_Original ==
    (/\ UnpaidExtension
     /\ pc = "sample"
     /\ passes >= 2
     /\ Last(gpc_error) < gpc_error[Len(gpc_error) - 1]
     /\ Last(gpc_error) < ErrorBeforeExtension)
    => ~SampleCond(add_samples, delta_eps, eps, options)

\* C4 amended: after a basis extension that did not lower the error, the
\* sampling loop continues with passes that each enlarge the grid exactly as
\* long as the error is above eps and (from the second pass on) the last
\* change of the error is above delta_eps_target = 0.1 of the error of the
\* first fit after the extension; an improvement alone does not end it.  The
\* loop then exits and the interaction order is increased.
C4_PlateauExit ==
    /\ [](UnpaidExtension =>
            /\ ErrorAtExtension >= ErrorBeforeExtension
            /\ eps_ref = ErrorAtExtension
            /\ (pc = "sample" /\ passes = 1) =>
                  (SampleCond(add_samples, delta_eps, eps, options)
                     <=> Last(gpc_error) > options.eps)
            /\ (pc = "sample" /\ passes >= 2) =>
                  (SampleCond(add_samples, delta_eps, eps, options)
                     <=> (ChangeAboveTarget /\ Last(gpc_error) > options.eps))
            /\ pc = "after_sample" =>
                  \/ Last(gpc_error) <= options.eps
                  \/ (passes >= 2 /\ ~ChangeAboveTarget))
    /\ [][(UnpaidExtension /\ PassStep) =>
            (n_grid' > n_grid /\ Len(gpc_error') = Len(gpc_error) + 1)]_vars
    /\ [][(UnpaidExtension /\ pc = "after_sample") =>
            (interaction_order_current' = interaction_order_current + 1
             /\ pc' = "inner")]_vars

\* C4 witness: the loop has exited on the plateau after an improving pass
\* that did not end it.
C4_Witness ==
    /\ UnpaidExtension
    /\ pc = "after_sample"
    /\ passes >= 3
    /\ Last(gpc_error) > options.eps
    /\ gpc_error[Len(gpc_error) - 1] < gpc_error[Len(gpc_error) - 2]

\* C5: with adaptive sampling disabled, every sampling loop executes its body
\* exactly once, with one fit and one validation, and is then left.
C5_OnePassPerExtension ==
    /\ [](~options.adaptive_sampling =>
            /\ passes <= 1
            /\ loop_fits = passes
            /\ pc = "sample" => passes = 0
            /\ pc = "after_sample" =>
                  (passes = 1 /\ loop_fits = 1 /\ fit.n_basis = Len(basis)))
    /\ [][(~options.adaptive_sampling /\ PassStep) =>
            /\ passes = 0
            /\ Len(gpc_error') = Len(gpc_error) + 1
            /\ pc' = "after_sample"]_vars

\* C5 witness: the single pass after a basis extension was made.
C5_Witness ==
    /\ ~options.adaptive_sampling
    /\ order > options.order_start
    /\ pc = "after_sample"
    /\ passes = 1
    /\ Len(gpc_error) >= 2

\* ceil(matrix_ratio * n)
RatioTarget(n) == Ceil(options.matrix_ratio.num * n, options.matrix_ratio.den)

\* C6: with adaptive sampling disabled, every pass targets
\* ceil(matrix_ratio * n_basis) grid points, and at every fit the grid holds
\* at least that many points, exactly that many without gradient enhancement.
C6_RatioTarget ==
    ~options.adaptive_sampling =>
        /\ branch \in {"none", "ratio"}
        /\ pc = "after_sample" => n_grid_new = RatioTarget(Len(basis))
        /\ Fitted =>
              /\ fit.n_grid >= RatioTarget(fit.n_basis)
              /\ ~options.gradient_enhanced => fit.n_grid = RatioTarget(fit.n_basis)

\* C6 witness: a fit after an extension, the ratio rounded up to the target.
C6_Witness ==
    /\ ~options.adaptive_sampling
    /\ ~options.gradient_enhanced
    /\ order > options.order_start
    /\ pc = "after_sample"
    /\ fit.n_basis = Len(basis)
    /\ options.matrix_ratio.den * fit.n_grid > options.matrix_ratio.num * fit.n_basis

\* C7: with adaptive sampling, no pass computes its target as
\* ceil(n_basis * matrix_ratio), and every growth of the grid is by
\* ceil(0.05 * n_basis) points.
C7_RatioOnlyInitial ==
    /\ [](options.adaptive_sampling => branch \in {"none", "old", "step"})
    /\ [][(options.adaptive_sampling /\ n_grid' # n_grid) =>
            n_grid' = n_grid + Ceil(DeltaSamplesNum * Len(basis), DeltaSamplesDen)]_vars

\* C7 witness: the grid has grown by a step of two points.
C7_Witness ==
    /\ options.adaptive_sampling
    /\ branch = "step"
    /\ n_grid = n_grid_new
    /\ Ceil(DeltaSamplesNum * Len(basis), DeltaSamplesDen) = 2
    /\ n_grid = NGridInit(options, Len(basis)) + 2

\* The run is inside the sub-iteration loop of the current order.
InInnerLoop == pc \in {"inner", "sample", "after_sample"}

\* C8 as stated: at every order, the start order included, the interaction
\* orders entered are 1, 2, ... in increasing order.
C8_Original ==
    \A j \in 1..Len(visited) : visited[j] = j

\* C8 amended: at every order above order_start the sub-iteration loop enters
\* interaction_order_current = 1, 2, ..., min(order, interaction_order) in
\* increasing order; at the start order it makes the single visit
\* min(interaction_order, order_start); it stops early only on convergence,
\* and afterwards interaction_order_current is 1 and the order one higher.
C8_InteractionOrderSweep ==
    /\ []((InInnerLoop /\ order > options.order_start) =>
            /\ \A j \in 1..Len(visited) : visited[j] = j
            /\ Len(visited) <= Min2(order, options.interaction_order)
            /\ pc = "inner" => interaction_order_current = Len(visited) + 1
            /\ pc # "inner" => interaction_order_current = Len(visited))
    /\ []((InInnerLoop /\ order = options.order_start) =>
            \/ (visited = <<>> /\ pc = "inner")
            \/ visited = <<Min2(options.interaction_order, options.order_start)>>)
    /\ [][(pc = "inner" /\ pc' = "outer") =>
            /\ \/ eps <= options.eps
               \/ Len(visited) = (IF order = options.order_start THEN 1
                                  ELSE Min2(order, options.interaction_order))
            /\ interaction_order_current' = 1
            /\ order' = order + 1]_vars

\* C8 witness: an order above the start order whose two interaction orders
\* were entered, after a start order entered with interaction order 0.
C8_Witness ==
    /\ pc = "inner"
    /\ options.order_start = 0
    /\ order = 2
    /\ visited = <<1, 2>>
    /\ eps > options.eps

\* The new multi-indices of the order whose interaction order is the current one.
NewOfCurrentInteractionOrder ==
    {j \in 1..Len(multi_indices_all_new) :
        InteractionOrderOf(multi_indices_all_new[j]) = interaction_order_current}

\* A sub-iteration above the start order begins and finds no new multi-index
\* of the current interaction order.
NothingToAdd ==
    /\ pc = "inner"
    /\ InnerCond(interaction_order_current, interaction_order_current_max, eps, options)
    /\ order # options.order_start
    /\ NewOfCurrentInteractionOrder = {}

\* C9: a sub-iteration that finds no new multi-index of the current
\* interaction order (the new multi-indices being those of an order above the
\* start order) changes only interaction_order_current, which it increments:
\* basis, grid, results, error history and the basis-extended flag are
\* unchanged, and no fit, evaluation or validation is made.
C9_SkipEmptyLevel ==
    [][NothingToAdd =>
          /\ interaction_order_current' = interaction_order_current + 1
          /\ pc' = "inner"
          /\ UNCHANGED <<basis, n_grid, res, res_bound, i_grid, gpc_error, eps,
                         extended_basis, first_iter, fit, order, eps_ref,
                         multi_indices_all_new, passes, loop_fits>>]_vars

\* C9 witness: an interaction level was skipped after a basis extension whose
\* first fit did not pay off (the flag was FALSE and stays FALSE).
C9_Witness ==
    /\ pc = "inner"
    /\ order > options.order_start
    /\ Len(visited) = 2
    /\ interaction_order_current = 3
    /\ ~extended_basis
    /\ passes >= 1
    /\ \A j \in 1..Len(basis) : InteractionOrderOf(basis[j]) <= 1

\* The multi-indices have just been computed for the order.
JustComputed == pc = "inner" /\ visited = <<>>

\* C10: the new multi-indices computed at an outer iteration are exactly the
\* index set of the order minus the multi-indices of the basis: no row twice,
\* disjoint from the basis, and together with the basis the full index set.
C10_NewIndicesAreDifference ==
    JustComputed =>
        LET full == SeqToSet(get_multi_indices_max_order(
                        options.dim, order, options.order_max_norm_inv))
            new  == SeqToSet(multi_indices_all_new)
            cur  == SeqToSet(basis)
        IN  /\ Cardinality(new) = Len(multi_indices_all_new)
            /\ new \cap cur = {}
            /\ new \cup cur = full
            /\ new = full \ cur

\* C10 witness: the indices of order 2 computed over a basis of order 1 that
\* was grown from order 0.
C10_Witness ==
    /\ JustComputed
    /\ options.order_start = 0
    /\ order = 2
    /\ Len(basis) = 3
    /\ Len(multi_indices_all_new) >= 2

\* b is a prefix of c
IsPrefix(b, c) == Len(b) <= Len(c) /\ \A j \in 1..Len(b) : c[j] = b[j]

\* C11: the basis is append-only during a run: every step leaves the basis
\* functions present in place and in order (the number never decreases), and
\* the basis never holds a multi-index twice.
C11_BasisAppendOnly ==
    /\ [](Cardinality(SeqToSet(basis)) = Len(basis))
    /\ [][IsPrefix(basis, basis')]_vars

\* C11 witness: a basis that was extended twice at one order, once for each
\* interaction order.
C11_Witness ==
    /\ options.order_start = 1
    /\ order = 2
    /\ visited = <<1, 2>>
    /\ Len(basis) = 6
    /\ pc = "sample"

\* Every multi-index of the basis is admissible at order k.
BasisWithinOrder(k) ==
    \A j \in 1..Len(basis) : InNorm(basis[j], k, options.order_max_norm_inv)

\* The order of the sub-iteration in progress lies in order_start..order_end.
ExtensionOrderInRange ==
    InInnerLoop => (options.order_start <= order /\ order <= options.order_end)

\* A run that ends at an order not above order_end has an error at or below eps.
EndsConvergedBelowOrderEnd ==
    (pc \in {"done", "raised"} /\ order <= options.order_end) =>
        (gpc_error # <<>> /\ eps <= options.eps)

\* C12 as stated: the order used to extend the basis lies in
\* order_start..order_end, the basis holds no multi-index that is admissible
\* only above order_end, and a run that ends at an order not above order_end
\* ends with an error at or below eps.
C12_Original ==
    /\ ExtensionOrderInRange
    /\ BasisWithinOrder(options.order_end)
    /\ EndsConvergedBelowOrderEnd

\* The run is over: it returned or it raised.
RunOver == pc \in {"done", "raised"}

\* C13 as stated: a run that leaves the order loop without having reached the
\* target error raises nothing and returns (gpc, coeffs, res), coeffs being
\* the final fit and res holding one row per grid point.
C13_Original ==
    (RunOver /\ eps > options.eps) =>
        /\ pc = "done"
        /\ res_bound
        /\ Len(res) = n_grid
        /\ fit = Solve(res, n_grid, basis, i_grid)

\* ------------------------------------------------ runs of unbounded length
\* A run of unbounded length has no finite state: its grid and its error
\* history grow with every pass.  SpecLive follows the same run and keeps of
\* the growing values what run() reads: the last two errors (gpc.error[-1] and
\* gpc.error[-2]), the pass counters up to 2, and the grid size up to
\* LiveGridCap (a grid that has reached the cap stands for every larger one;
\* n_grid_new = n_grid + step stays above i_grid, as in the code).
KeepLastTwo(err) ==
    IF Len(err) <= 2 THEN err ELSE SubSeq(err, Len(err) - 1, Len(err))

GridUpToCap(old, new) ==
    IF new <= LiveGridCap THEN new ELSE Max2(old, LiveGridCap)

CountUpToTwo(n) == Min2(n, 2)

\* The body of the sampling loop (SamplePassWith) on the kept values.
SamplePassLiveWith(e) ==
    LET add1   == IF ~options.adaptive_sampling THEN FALSE ELSE add_samples
        br     == NGridNewBranch(extended_basis, first_iter, options)
        target == NGridNew(br, n_grid, Len(basis), options)
    IN  /\ n_grid_new' = GridUpToCap(n_grid, target)
        /\ branch' = br
        /\ add_samples' = add1
        /\ passes' = CountUpToTwo(passes + 1)
        /\ IF PassCond(i_grid, target, extended_basis)
           THEN LET grow  == i_grid < target
                    grid1 == IF grow
                             THEN GridUpToCap(n_grid, ExtendRandomGrid(n_grid, target))
                             ELSE n_grid
                    res1  == IF ~grow THEN res
                             ELSE IF i_grid = 0 THEN EvalSlice(i_grid, grid1)
                             ELSE res \o EvalSlice(i_grid, grid1)
                    ig1   == IF grow THEN grid1 ELSE i_grid
                    err1  == KeepLastTwo(Append(gpc_error, e))
                    brk   == BreakImproved(first_iter, extended_basis, err1)
                IN  /\ n_grid' = grid1
                    /\ res' = res1
                    /\ res_bound' = (res_bound \/ grow)
                    /\ i_grid' = ig1
                    /\ fit' = Solve(res1, grid1, basis, ig1)
                    /\ loop_fits' = CountUpToTwo(loop_fits + 1)
                    /\ gpc_error' = err1
                    /\ eps' = e
                    /\ eps_ref' = IF extended_basis THEN e ELSE eps_ref
                    /\ delta_eps' = IF extended_basis THEN delta_eps
                                    ELSE DeltaEps(err1, eps_ref)
                    /\ extended_basis' = IF brk THEN extended_basis ELSE FALSE
                    /\ first_iter' = IF brk THEN first_iter ELSE FALSE
                    /\ pc' = IF brk \/ ~options.adaptive_sampling
                             THEN "after_sample" ELSE "sample"
           ELSE /\ pc' = "sample"
                /\ UNCHANGED <<n_grid, res, res_bound, i_grid, fit, loop_fits,
                               gpc_error, eps, eps_ref, delta_eps,
                               extended_basis, first_iter>>
        /\ UNCHANGED <<options, order, basis, interaction_order_current,
                       multi_indices_all_new, interaction_order_current_max,
                       visited>>

SamplePassLive ==
    /\ pc = "sample"
    /\ SampleCond(add_samples, delta_eps, eps, options)
    /\ \E e \in ErrVals : SamplePassLiveWith(e)
    /\ UNCHANGED <<gridvars, restvars>>

NextLive ==
    \/ OuterLoopEnter
    \/ OuterLoopExit
    \/ InnerStart
    \/ InnerSkip
    \/ InnerExtend
    \/ InnerLoopExit
    \/ SamplePassLive
    \/ SampleLoopExit
    \/ InnerAdvance
    \/ FinalSolve
    \/ FinalUnbound

\* run() is sequential: whenever it has a next step it takes it.
SpecLive == Init /\ [][NextLive]_vars /\ WF_vars(NextLive)

\* C14 as stated: every run reaches its return statement (or raises) after
\* finitely many sampling passes, whatever errors the validation returns.
C14_Original == <>RunOver

\* ------------------------------------------------------- the grid subsystem
\* problem.dim of the grids followed (two dimensions tell the two generation
\* orders of RandomGrid apart)
GridDim == 2

\* seeds handed to RandomGrid and extend_random_grid
SeedSet == {NoSeed, 0, 7}

\* `if self.seed:` (Grid.py lines 1018 and 1021): None and 0 are false.
Truthy(seed) == seed # NoSeed /\ seed # 0

\* np.random.seed(self.seed), called only under `if self.seed:`
Seeded(r, seed) == IF Truthy(seed) THEN [stream |-> seed, pos |-> 0] ELSE r

\* The k-th scalar the generator r returns next (k = 0 is the next one): a
\* value fixed by the stream and the number of scalars drawn before it.
Draw(r, k) == [src |-> "draw", a |-> r.stream, b |-> r.pos + k, denorm |-> FALSE]

\* lines 1022-1032: one scalar at a time, grid point by grid point
PointByPoint(r, n) ==
    [i \in 1..n |-> [d \in 1..GridDim |-> Draw(r, (i - 1) * GridDim + (d - 1))]]

\* lines 1033-1042: all n scalars of a dimension at once, dimension by dimension
WholeBlock(r, n) ==
    [i \in 1..n |-> [d \in 1..GridDim |-> Draw(r, (d - 1) * n + (i - 1))]]

Generate(r, n, seed) ==
    IF Truthy(seed) THEN PointByPoint(r, n) ELSE WholeBlock(r, n)

Advance(r, n) == [r EXCEPT !.pos = @ + n * GridDim]

\* get_denormalized_coordinates, point by point and dimension by dimension
Denormalized(cn) ==
    [i \in 1..Len(cn) |-> [d \in 1..Len(cn[i]) |-> [cn[i][d] EXCEPT !.denorm = TRUE]]]

\* uuid.uuid4() for each of n points: values no earlier operation has produced
FreshIds(n) == [j \in 1..n |-> <<n_ops + 1, j>>]

\* The arrays a deterministic rule (kind "knot") or the projection of another
\* grid's arrays (kind "proj") yields for n points.
Rows(kind, n, dn) ==
    [i \in 1..n |-> [d \in 1..GridDim |-> [src |-> kind, a |-> i, b |-> d, denorm |-> dn]]]

Snapshot(g) == [hist |-> g.hist, coords_norm |-> g.coords_norm]

\* What RandomGrid(problem, {"n_grid": n, "seed": seed}) holds after __init__.
RandomGridOf(r, n, seed) ==
    LET cn == Generate(Seeded(r, seed), n, seed)
    IN  [kind |-> "random", n_grid |-> n, coords |-> Denormalized(cn),
         coords_norm |-> cn, coords_id |-> FreshIds(n),
         hist |-> <<[name |-> "RandomGrid", n |-> n, seed |-> seed]>>]

Logged(g, name, n, seed) ==
    /\ made' = made \cup {Snapshot(g)}
    /\ op' = [name |-> name, n |-> n, seed |-> seed]
    /\ n_ops' = n_ops + 1

\* RandomGrid.__init__
NewRandomGrid ==
    /\ n_ops < MaxGridOps
    /\ \E n \in 1..MaxNew, seed \in SeedSet :
         LET g == RandomGridOf(rng, n, seed)
         IN  /\ grid' = g
             /\ rng' = Advance(Seeded(rng, seed), n)
             /\ Logged(g, "RandomGrid", n, seed)
    /\ UNCHANGED <<runvars, restvars>>

\* TensorGrid.__init__ and SparseGrid.__init__ (make_grid left out of the
\* parameters): a rule of n points, no random draw.
DeterministicGridOf(name, n) ==
    [kind |-> name, n_grid |-> n, coords |-> Rows("knot", n, TRUE),
     coords_norm |-> Rows("knot", n, FALSE), coords_id |-> FreshIds(n),
     hist |-> <<[name |-> name, n |-> n, seed |-> NoSeed]>>]

NewTensorGrid ==
    /\ n_ops < MaxGridOps
    /\ \E n \in 1..MaxNew :
         LET g == DeterministicGridOf("TensorGrid", n)
         IN  grid' = g /\ Logged(g, "TensorGrid", n, NoSeed)
    /\ UNCHANGED <<rng, runvars, restvars>>

NewSparseGrid ==
    /\ n_ops < MaxGridOps
    /\ \E n \in 1..MaxNew :
         LET g == DeterministicGridOf("SparseGrid", n)
         IN  grid' = g /\ Logged(g, "SparseGrid", n, NoSeed)
    /\ UNCHANGED <<rng, runvars, restvars>>

\* n_grid_add = int(n_grid_new - self.n_grid), target being the argument n_grid_new  (line 1064)
NGridAddTotal(target, n) == target
NGridAdd(target, n) == target - n

\* np.vstack([self.coords, new_grid.coords])  (lines 1072-1073)
StackedOnTop(old, new) == new \o old
Stacked(old, new) == old \o new

\* What the grid g holds after g.extend_random_grid(n_grid_new = target, seed).
ExtendedGridOf(g, r, target, seed) ==
    LET n_grid_add == NGridAdd(target, g.n_grid)
        new_grid   == RandomGridOf(r, n_grid_add, seed)
    IN  IF n_grid_add > 0
        THEN [g EXCEPT !.coords = Stacked(@, new_grid.coords),
                       !.coords_norm = Stacked(@, new_grid.coords_norm),
                       !.coords_id = @ \o FreshIds(n_grid_add),
                       !.n_grid = Len(Stacked(g.coords, new_grid.coords)),
                       !.hist = Append(@, [name |-> "extend", n |-> target,
                                           seed |-> seed])]
        ELSE g

\* RandomGrid.extend_random_grid; in the else branch the Warning object is
\* built and dropped, nothing is raised.
extend_random_grid ==
    /\ n_ops < MaxGridOps
    /\ grid.kind = "random"
    /\ \E target \in 0..MaxGridLen, seed \in SeedSet :
         LET g == ExtendedGridOf(grid, rng, target, seed)
         IN  /\ grid' = g
             /\ rng' = IF NGridAdd(target, grid.n_grid) > 0
                       THEN Advance(Seeded(rng, seed),
                                    NGridAdd(target, grid.n_grid))
                       ELSE rng
             /\ Logged(g, "extend", target, seed)
    /\ UNCHANGED <<runvars, restvars>>

\* The setters Grid.coords and Grid.coords_norm, called one after the other
\* on a constructed grid with the projected arrays of a grid of k points
\* (RegAdaptiveProjection.run, lines 3315-3319): coords_id is not None, so
\* both setters leave it alone.  The grid assigned to is gpc[i_qoi].grid, a
\* copy of the random grid; run() extends grid_original only (line 3178), so
\* the projected copy (kind "projected") is never extended.
AssignProjected ==
    /\ n_ops < MaxGridOps
    /\ grid.kind \in {"random", "projected"}
    /\ \E k \in grid.n_grid..MaxGridLen :
         LET g == [grid EXCEPT !.kind = "projected",
                               !.coords = Rows("proj", k, TRUE),
                               !.coords_norm = Rows("proj", k, FALSE),
                               !.n_grid = k,
                               !.hist = Append(@, [name |-> "assign", n |-> k,
                                                   seed |-> NoSeed])]
         IN  grid' = g /\ Logged(g, "assign", k, NoSeed)
    /\ UNCHANGED <<rng, runvars, restvars>>

\* No RegAdaptive run is in progress while the grid operations are followed.
RunIdle ==
    /\ options = [dim |-> GridDim, order_max_norm_inv |-> 1, order_start |-> 0,
                  order_end |-> 0, interaction_order |-> 1, eps |-> 1,
                  adaptive_sampling |-> FALSE,
                  matrix_ratio |-> [num |-> 1, den |-> 1],
                  gradient_enhanced |-> FALSE, n_grid_gradient |-> 4]
    /\ pc = "idle"
    /\ eps = 0
    /\ i_grid = 0
    /\ order = 0
    /\ first_iter = TRUE
    /\ extended_basis = TRUE
    /\ basis = <<>>
    /\ n_grid = 0
    /\ interaction_order_current = 0
    /\ gpc_error = <<>>
    /\ multi_indices_all_new = <<>>
    /\ interaction_order_current_max = 0
    /\ add_samples = TRUE
    /\ delta_eps = [num |-> 0, den |-> 1]
    /\ eps_ref = 0
    /\ n_grid_new = 0
    /\ res = <<>>
    /\ res_bound = FALSE
    /\ fit = [n_rows |-> 0, n_grid |-> 0, n_basis |-> 0, i_grid |-> 0]
    /\ passes = 0
    /\ loop_fits = 0
    /\ visited = <<>>
    /\ branch = "none"

InitGrid == RunIdle /\ GridIdle /\ RestIdle

NextGrid ==
    \/ NewRandomGrid
    \/ NewTensorGrid
    \/ NewSparseGrid
    \/ extend_random_grid
    \/ AssignProjected

SpecGrid == InitGrid /\ [][NextGrid]_vars

\* ------------------------------------------------------ claims on the grids
GridLengthsAgree(g) ==
    /\ Len(g.coords) = g.n_grid
    /\ Len(g.coords_norm) = g.n_grid
    /\ Len(g.coords_id) = g.n_grid

\* C15 as stated: after every grid operation (a constructor, an extension, an
\* assignment of projected arrays) coords, coords_norm and coords_id all have
\* n_grid entries.
C15_Original == (op.name # "none") => GridLengthsAgree(grid)

ExtendStepBeyond == op'.name = "extend" /\ op'.n > grid.n_grid

\* C16: an extension to a target above the current size appends: the old
\* rows of coords and coords_norm and the old identifiers stay in front, in
\* their order, and the grid ends with exactly target rows and identifiers
\* (target - n_grid new ones).
C16_ExtendAppends ==
    [][ExtendStepBeyond =>
          /\ IsPrefix(grid.coords, grid'.coords)
          /\ IsPrefix(grid.coords_norm, grid'.coords_norm)
          /\ IsPrefix(grid.coords_id, grid'.coords_id)
          /\ grid'.n_grid = op'.n
          /\ grid'.n_grid = ExtendRandomGrid(grid.n_grid, op'.n)
          /\ GridLengthsAgree(grid')
          /\ Cardinality(SeqToSet(grid'.coords_id)) = op'.n]_vars

C16_Witness ==
    /\ op.name = "extend"
    /\ Len(grid.hist) = 2
    /\ grid.hist[1].n = 1
    /\ op.n = 3
    /\ grid.n_grid = 3
    /\ Len(grid.coords_id) = 3

ExtendStepNotBeyond == op'.name = "extend" /\ op'.n <= grid.n_grid

\* C17: an extension to a target not above the current size changes nothing
\* of the grid, draws nothing from the generator (and does not reseed it), and
\* completes without an error.
C17_ExtendNoOp ==
    [][ExtendStepNotBeyond =>
          /\ grid'.coords = grid.coords
          /\ grid'.coords_norm = grid.coords_norm
          /\ grid'.coords_id = grid.coords_id
          /\ grid'.n_grid = grid.n_grid
          /\ rng' = rng
          /\ n_ops' = n_ops + 1]_vars

C17_Witness ==
    /\ op.name = "extend"
    /\ op.seed = 7
    /\ op.n = 1
    /\ grid.n_grid = 2
    /\ Len(grid.hist) = 1

\* the grids RandomGrid(...) has returned, as constructed
FreshRandomGrids ==
    {a \in made : Len(a.hist) = 1 /\ a.hist[1].name = "RandomGrid"}

\* C18 as stated: for every seed, the first n points of a freshly generated
\* seeded grid of m > n points are the points of a freshly generated grid of
\* n points with that seed.
C18_Original ==
    \A a, b \in FreshRandomGrids :
        (a.hist[1].seed # NoSeed /\ a.hist[1].seed = b.hist[1].seed
         /\ a.hist[1].n < b.hist[1].n)
            => IsPrefix(a.coords_norm, b.coords_norm)

SuppliedSeedSeeds ==
    (op.name = "RandomGrid" /\ op.seed # NoSeed)
        => /\ rng.stream = op.seed
           /\ grid.coords_norm = PointByPoint([stream |-> op.seed, pos |-> 0], op.n)

BlockOnlyWithoutSeed ==
    (op.name = "RandomGrid" /\ op.n > 1 /\ op.seed = NoSeed)
        => \E r \in [stream : {rng.stream}, pos : 0..rng.pos] :
               grid.coords_norm = WholeBlock(r, op.n)

SameSeedSameGrid ==
    \A a, b \in FreshRandomGrids :
        (a.hist[1].seed # NoSeed /\ a.hist = b.hist)
            => a.coords_norm = b.coords_norm

\* C19 as stated: every supplied seed (0 included) seeds the generator and
\* selects point-by-point generation, so that equal seed and size give equal
\* coordinates; whole-block generation is used only without a seed.
C19_Original == SuppliedSeedSeeds /\ BlockOnlyWithoutSeed /\ SameSeedSameGrid

\* The grid sequence of a RegAdaptive run: RandomGrid(n, options["seed"]),
\* then extend_random_grid(n_grid_new, seed=None) any number of times.
IsRunHistory(h) ==
    /\ Len(h) >= 1
    /\ h[1].name = "RandomGrid"
    /\ \A j \in 2..Len(h) : h[j].name = "extend" /\ h[j].seed = NoSeed

\* C20 as stated: two runs with the same seed option and the same grid
\* sizes hold the same grid points, extension points included.
C20_Original ==
    \A a, b \in made :
        (IsRunHistory(a.hist) /\ a.hist[1].seed # NoSeed /\ a.hist = b.hist)
            => a.coords_norm = b.coords_norm

\* ------------------------------------------ the merge of the sparse sub-grids
\* SparseGrid.calc_coords_weights from the list of candidate points on
\* (Grid.py lines 933-964).  Knots are integers counted in halves of
\* epsilon_k, so that two knots one unit apart pass the test
\* `sum(abs(a - b)) < epsilon_k` and two knots two units apart do not; weights
\* are integers, far above epsilon_w in size unless they are zero.
EpsilonK == 2

EpsilonW == 0

\* problem.dim of the merged candidates
MergeDim == 1

KnotSet == {0, 1, 2}

WeightSet == {-1, 1, 2}

CandidateLists ==
    UNION {[1..n -> [k : {<<x>> : x \in KnotSet}, w : WeightSet]] : n \in 1..MaxCand}

\* np.sum(np.abs(a - b)) over the dimensions
RECURSIVE L1Distance(_, _)
L1Distance(a, b) ==
    IF Len(a) = 0 THEN 0
    ELSE Abs(Head(a) - Head(b)) + L1Distance(Tail(a), Tail(b))

Near(a, b) == L1Distance(a, b) < EpsilonK

\* indices i with point_number_list[i] < 0, and the first of them (dll_k_nf[0])
NotFound(pnl) == {i \in 1..Len(pnl) : pnl[i] < 0}

FirstNotFound(pnl) == CHOOSE i \in NotFound(pnl) : \A j \in NotFound(pnl) : i <= j

\* calc_coords_weights as it enters the merge loop (lines 933-940)
MergeStart(cands) ==
    [stage |-> "loop",
     dll_k |-> [i \in 1..Len(cands) |-> cands[i].k],
     dll_w |-> [i \in 1..Len(cands) |-> cands[i].w],
     point_number_list |-> [i \in 1..Len(cands) |-> -1],
     point_no |-> 0,
     coords_norm |-> <<>>,
     weights |-> <<>>,
     kept |-> <<>>]

\* one execution of the body of the merge loop (lines 942-949)
MergePassOf(m) ==
    LET pivot == m.dll_k[FirstNotFound(m.point_number_list)]
        pnl   == [i \in 1..Len(m.dll_k) |->
                    IF m.point_number_list[i] >= 0 THEN m.point_number_list[i]
                    ELSE IF Near(m.dll_k[i], pivot) THEN m.point_no ELSE -1]
    IN  [m EXCEPT !.point_number_list = pnl,
                  !.point_no = @ + 1,
                  !.coords_norm = Append(@, pivot),
                  !.stage = IF NotFound(pnl) = {} THEN "sum" ELSE "loop"]

\* np.sum(dll_w[point_number_list == i_point])  (line 956)
RECURSIVE SumWhere(_, _, _)
SumWhere(w, pnl, j) ==
    IF Len(w) = 0 THEN 0
    ELSE (IF Head(pnl) = j THEN Head(w) ELSE 0) + SumWhere(Tail(w), Tail(pnl), j)

WeightOfPointFirst(w, pnl, j) == w[CHOOSE i \in 1..Len(w) : pnl[i] = j /\ \A h \in 1..(i - 1) : pnl[h] # j]

WeightOfPoint(w, pnl, j) == SumWhere(w, pnl, j)

\* np.amax(point_number_list) + 1
RECURSIVE MaxOf(_)
MaxOf(q) == IF Len(q) = 1 THEN q[1] ELSE Max2(Head(q), MaxOf(Tail(q)))

\* the weights of the merged points (lines 954-957)
MergeSumOf(m) ==
    [m EXCEPT !.weights = [j \in 1..(MaxOf(m.point_number_list) + 1) |->
                              WeightOfPoint(m.dll_w, m.point_number_list, j - 1)],
              !.stage = "filter"]

\* rows of a with keep true, in their order: a[keep_point]
RECURSIVE Masked(_, _)
Masked(a, keep) ==
    IF Len(a) = 0 THEN <<>>
    ELSE (IF Head(keep) THEN <<Head(a)>> ELSE <<>>) \o Masked(Tail(a), Tail(keep))

\* 2 ** self.problem.dim
RECURSIVE TwoToThe(_)
TwoToThe(d) == IF d = 0 THEN 1 ELSE 2 * TwoToThe(d - 1)

\* points of very small weight are dropped, the others keep weight / 2 ** dim
\* (lines 960-964)
MergeFilterOf(m) ==
    LET keep_point == [j \in 1..Len(m.weights) |-> Abs(m.weights[j]) > EpsilonW]
        merged     == [j \in 1..Len(m.weights) |->
                          [k |-> m.coords_norm[j],
                           w |-> [num |-> m.weights[j], den |-> TwoToThe(MergeDim)]]]
    IN  [m EXCEPT !.kept = Masked(merged, keep_point), !.stage = "done"]

InitMerge ==
    /\ RunIdle
    /\ GridIdle
    /\ alg = NoAlg
    /\ quad = NoQuad
    /\ proj = NoProj /\ work = NoWork
    /\ \E cands \in CandidateLists : merge = MergeStart(cands)

MergePass ==
    /\ merge.stage = "loop"
    /\ NotFound(merge.point_number_list) # {}
    /\ merge' = MergePassOf(merge)
    /\ UNCHANGED <<runvars, gridvars, alg, quad, proj, work>>

MergeSum ==
    /\ merge.stage = "sum"
    /\ merge' = MergeSumOf(merge)
    /\ UNCHANGED <<runvars, gridvars, alg, quad, proj, work>>

MergeFilter ==
    /\ merge.stage = "filter"
    /\ merge' = MergeFilterOf(merge)
    /\ UNCHANGED <<runvars, gridvars, alg, quad, proj, work>>

NextMerge == MergePass \/ MergeSum \/ MergeFilter

\* calc_coords_weights is sequential code: it takes its next step.
SpecMerge == InitMerge /\ [][NextMerge]_vars /\ WF_vars(NextMerge)

\* ------------------------------------------------------ claims on the merge
MergeAssigned ==
    merge.stage \in {"sum", "filter", "done"} =>
        /\ Len(merge.coords_norm) = merge.point_no
        /\ \A i \in 1..Len(merge.dll_k) :
              /\ merge.point_number_list[i] \in 0..(merge.point_no - 1)
              /\ Near(merge.dll_k[i], merge.coords_norm[merge.point_number_list[i] + 1])
        /\ \A j \in 0..(merge.point_no - 1) :
              \E i \in 1..Len(merge.dll_k) : merge.point_number_list[i] = j

AssignedTo(j) == {i \in 1..Len(merge.dll_k) : merge.point_number_list[i] = j}

RECURSIVE SumOver(_, _)
SumOver(w, idx) ==
    IF idx = {} THEN 0
    ELSE LET i == CHOOSE h \in idx : TRUE IN w[i] + SumOver(w, idx \ {i})

MergeWeightsAreSums ==
    merge.stage \in {"filter", "done"} =>
        /\ Len(merge.weights) = merge.point_no
        /\ \A j \in 1..merge.point_no :
              merge.weights[j] = SumOver(merge.dll_w, AssignedTo(j - 1))
        /\ SumSeq(merge.weights) = SumSeq(merge.dll_w)

MergePassAssigns ==
    merge.stage = "loop" /\ merge'.stage \in {"loop", "sum"} =>
        /\ Cardinality(NotFound(merge'.point_number_list))
               < Cardinality(NotFound(merge.point_number_list))
        /\ \A i \in 1..Len(merge.dll_k) :
              merge.point_number_list[i] >= 0
                  => merge'.point_number_list[i] = merge.point_number_list[i]

\* C21: the merge loop ends, every candidate point is assigned to exactly one
\* merged point (once and for all, and to one within the tolerance), and the
\* weight of a merged point is the sum of the signed weights of its
\* candidates, so the merged weights add up to the candidate weights.
C21_MergeSumsWeights ==
    /\ [](MergeAssigned /\ MergeWeightsAreSums)
    /\ [][MergePassAssigns]_vars
    /\ <>(merge.stage = "done")

C21_Witness ==
    /\ merge.stage = "done"
    /\ Len(merge.dll_k) = 3
    /\ merge.point_no = 2
    /\ merge.weights = <<0, 2>>
    /\ Len(merge.kept) = 1

\* the whole of calc_coords_weights on a list of candidates
RECURSIVE MergeLoopOf(_)
MergeLoopOf(m) == IF m.stage = "loop" THEN MergeLoopOf(MergePassOf(m)) ELSE m

MergedOf(cands) == MergeFilterOf(MergeSumOf(MergeLoopOf(MergeStart(cands))))

MergedPoints(m) ==
    {[k |-> m.coords_norm[j], w |-> m.weights[j]] : j \in 1..Len(m.weights)}

\* the same merged points, a point counting as the same within the tolerance
SamePoints(a, b) ==
    /\ Cardinality(a) = Cardinality(b)
    /\ \A x \in a : \E y \in b : Near(x.k, y.k) /\ x.w = y.w
    /\ \A y \in b : \E x \in a : Near(x.k, y.k) /\ x.w = y.w

\* C22 as stated: in whatever order the candidate points are enumerated, the
\* merge yields the same merged points with the same weights.
C22_Original ==
    merge.stage = "done" =>
        \A f \in Permutations(1..Len(merge.dll_k)) :
            LET cands == [i \in 1..Len(merge.dll_k) |->
                            [k |-> merge.dll_k[f[i]], w |-> merge.dll_w[f[i]]]]
            IN  SamePoints(MergedPoints(MergedOf(cands)), MergedPoints(merge))

\* ------------------------------------------------ the 1-D quadrature routines
\* A routine returns [raised, knots, weights, scalar]: the error it raises
\* ("none" if it returns), its knots and weights as lists, and whether it
\* returns plain numbers in place of arrays.  Knots are integers in halves of
\* epsilon_k: the centre knot 0 of a rule of odd order, every other knot at a
\* place of its own (KnotStride apart, rule by rule).
KnotStride == 4

KnotOf(n, i) ==
    IF 2 * i = n + 1 THEN <<0>> ELSE <<KnotStride * ((MaxNodes + 2) * n + i)>>

WeightOf(n, i) == 1 + Min2(i, n + 1 - i)

RuleOf(n_knots, n_weights, n) ==
    [raised |-> "none", scalar |-> FALSE,
     knots |-> [i \in 1..n_knots |-> KnotOf(n, i)],
     weights |-> [i \in 1..n_weights |-> WeightOf(n, i)]]

RuleScalar(n) == [RuleOf(1, 1, n) EXCEPT !.scalar = TRUE]

RuleRaised(err) ==
    [raised |-> err, scalar |-> FALSE, knots |-> <<>>, weights |-> <<>>]

\* get_quadrature_jacobi_1d: the eigenvalues of an n x n matrix (lines 103-118)
get_quadrature_jacobi_1d(n) == RuleOf(n, n, n)

\* get_quadrature_hermite_1d: hermegauss(n) (lines 149-154)
get_quadrature_hermite_1d(n) == RuleOf(n, n, n)

\* get_quadrature_clenshaw_curtis_1d (lines 174-192), by the shapes of its
\* arrays: with m = n - 1, c has m rows, c[::2, 0] has ceil(m / 2) places for
\* the 1 + floor(m / 2) values assigned to it, c[1, 1] needs two rows, v and
\* f have m + (m - 1) rows, knots = f[0:m, 1] and
\* weights = (f[0, 0], 2 * f[1:m, 0], f[m, 0]).
get_quadrature_clenshaw_curtis_1d(n) ==
    IF n = 1 THEN RuleScalar(n)
    ELSE LET m      == n - 1
             rows   == m
             places == (rows + 1) \div 2
             values == 1 + (m \div 2)
             f_rows == rows + Max2(Min2(m, rows) - 1, 0)
         IN  IF places # values /\ values # 1 THEN RuleRaised("ValueError")
             ELSE IF rows < 2 THEN RuleRaised("IndexError")
             ELSE IF f_rows <= m THEN RuleRaised("IndexError")
             ELSE RuleOf(Min2(m, f_rows), 1 + (Min2(m, f_rows) - 1) + 1, n)

\* get_quadrature_fejer1_1d: theta, knots and weights are np.zeros(n)
\* (lines 225-248)
get_quadrature_fejer1_1d(n) == RuleOf(n, n, n)

\* get_quadrature_fejer2_1d (lines 282-320)
get_quadrature_fejer2_1d(n) == RuleOf(n, n, n)

\* the node counts get_quadrature_patterson_1d has a branch for
PattersonCountsWith2 == {1, 2, 3, 7, 15, 31}
PattersonCounts == {1, 3, 7, 15, 31}

\* get_quadrature_patterson_1d (lines 341-484)
get_quadrature_patterson_1d(n) ==
    IF n = 1 THEN RuleScalar(n)
    ELSE IF n \in PattersonCounts THEN RuleOf(n, n, n)
    ELSE RuleRaised("NotImplementedError")

FamilySet == {"jacobi", "hermite", "clenshaw_curtis", "fejer1", "fejer2", "patterson"}

Quadrature(family, n) ==
    CASE family = "jacobi" -> get_quadrature_jacobi_1d(n)
      [] family = "hermite" -> get_quadrature_hermite_1d(n)
      [] family = "clenshaw_curtis" -> get_quadrature_clenshaw_curtis_1d(n)
      [] family = "fejer1" -> get_quadrature_fejer1_1d(n)
      [] family = "fejer2" -> get_quadrature_fejer2_1d(n)
      [] family = "patterson" -> get_quadrature_patterson_1d(n)

\* a call of one routine on its own
RuleCalls ==
    {[stage |-> "call", kind |-> "rule", family |-> fam, n |-> n] :
        fam \in FamilySet, n \in 1..MaxNodes}

RuleCall ==
    /\ quad.stage = "call"
    /\ quad.kind = "rule"
    /\ quad' = [stage |-> "returned", kind |-> "rule", family |-> quad.family,
                n |-> quad.n, rule |-> Quadrature(quad.family, quad.n)]
    /\ UNCHANGED <<runvars, gridvars, alg, merge, proj, work>>

\* --------------------------------------------------- TensorGrid.__init__
\* grid-type names handed to the grid constructors: the five names the
\* constructors know, and a name they do not know
UnknownName == "foo"

GridTypeSet == {"jacobi", "hermite", "clenshaw_curtis", "fejer2", "patterson", UnknownName}

TensorCalls ==
    UNION {{[stage |-> "loop", kind |-> "tensor", grid_type |-> gt, n_dim |-> nd,
             knots_dim_list |-> <<>>, weights_dim_list |-> <<>>] :
               gt \in [1..d -> GridTypeSet], nd \in [1..d -> {1, 2, 3, 4}]} : d \in 1..2}

\* the branch of the loop body for one dimension (lines 593-619): for a name
\* without a branch the lists stay empty and an AttributeError object is built
\* and dropped
\* one execution of the body of the loop over the dimensions (lines 591-622)
TensorDim ==
    /\ quad.stage = "loop"
    /\ quad.kind = "tensor"
    /\ Len(quad.knots_dim_list) < Len(quad.grid_type)
    /\ LET i_dim == Len(quad.knots_dim_list) + 1
           name  == quad.grid_type[i_dim]
           rule  == IF name = UnknownName
                    THEN [raised |-> "none", scalar |-> FALSE,
                          knots |-> <<>>, weights |-> <<>>]
                    ELSE Quadrature(name, quad.n_dim[i_dim])
       IN  quad' = IF rule.raised # "none"
                   THEN [stage |-> "raised", kind |-> "tensor",
                         grid_type |-> quad.grid_type, n_dim |-> quad.n_dim,
                         error |-> rule.raised]
                   ELSE [quad EXCEPT !.knots_dim_list = Append(@, rule.knots),
                                     !.weights_dim_list = Append(@, rule.weights)]
    /\ UNCHANGED <<runvars, gridvars, alg, merge, proj, work>>

\* number of rows of cartesian(lists): one row for each combination
RECURSIVE CartesianRows(_)
CartesianRows(lists) ==
    IF Len(lists) = 0 THEN 1 ELSE Len(Head(lists)) * CartesianRows(Tail(lists))

\* after the loop (lines 624-648): the tensor grid, its weights and identifiers
TensorFinish ==
    /\ quad.stage = "loop"
    /\ quad.kind = "tensor"
    /\ Len(quad.knots_dim_list) = Len(quad.grid_type)
    /\ LET n == CartesianRows(quad.knots_dim_list)
       IN  quad' = [stage |-> "done", kind |-> "tensor",
                    grid_type |-> quad.grid_type, n_dim |-> quad.n_dim,
                    n_grid |-> n, n_coords |-> n, n_coords_norm |-> n,
                    n_coords_id |-> n,
                    n_weights |-> CartesianRows(quad.weights_dim_list)]
    /\ UNCHANGED <<runvars, gridvars, alg, merge, proj, work>>

\* --------------------------------------------------- SparseGrid.__init__
\* A sparse grid of one dimension: grid_type = [name], level = [level],
\* level_max = level.  The optional keys make_grid and verbose are absent or
\* carry a boolean.
SparseCalls ==
    {[stage |-> "params", kind |-> "sparse", grid_type |-> gt, level |-> lv,
      order_sequence_type |-> ost, make_grid |-> mg, verbose |-> vb] :
        gt \in GridTypeSet, lv \in 0..MaxLevel, ost \in {"exp", "lin"},
        mg \in {"absent", "True", "False"},
        vb \in {"absent", "True", "False"}}

SparseRaised(q, err) ==
    [stage |-> "raised", kind |-> "sparse", grid_type |-> q.grid_type,
     level |-> q.level, order_sequence_type |-> q.order_sequence_type,
     make_grid |-> q.make_grid, verbose |-> q.verbose, error |-> err]

\* lines 721-730: self.verbose and self.make_grid are assigned only when the
\* key is absent; `if self.make_grid:` then reads the attribute
SparseParams ==
    /\ quad.stage = "params"
    /\ quad' = IF quad.make_grid # "absent"
               THEN SparseRaised(quad, "AttributeError")
               ELSE [stage |-> "multi_indices", kind |-> "sparse",
                     grid_type |-> quad.grid_type, level |-> quad.level,
                     order_sequence_type |-> quad.order_sequence_type,
                     make_grid |-> quad.make_grid, verbose |-> quad.verbose,
                     self_make_grid |-> "True",
                     self_verbose |-> IF quad.verbose = "absent" THEN "False"
                                      ELSE "unset"]
    /\ UNCHANGED <<runvars, gridvars, alg, merge, proj, work>>

\* range(a, b) and np.arange(a, b) as a list
Range(a, b) == [i \in 1..Max2(b - a, 0) |-> a + i - 1]

\* the list of the orders of the levels (lines 757-779): error is "IndexError"
\* when [0] = 1 is assigned to an empty list, present is FALSE when the
\* branch appends no list
OrderSequence(name, lv, ost) ==
    IF ost = "exp"
    THEN IF name = "fejer2"
         THEN LET seq == [i \in 1..Max2(lv - 1, 0) |-> TwoToThe(i) - 1]
              IN  IF Len(seq) = 0
                  THEN [error |-> "IndexError", present |-> TRUE, seq |-> <<>>]
                  ELSE [error |-> "none", present |-> TRUE,
                        seq |-> [seq EXCEPT ![1] = 1]]
         ELSE IF name = "patterson"
         THEN [error |-> "none", present |-> TRUE,
               seq |-> [i \in 1..lv |-> TwoToThe(i - 1) + 1]]
         ELSE [error |-> "none", present |-> TRUE,
               seq |-> [[i \in 1..(lv + 1) |-> TwoToThe(i - 1) + 1] EXCEPT ![1] = 1]]
    ELSE IF name = "patterson"
         THEN [error |-> "none", present |-> FALSE, seq |-> <<>>]
         ELSE [error |-> "none", present |-> TRUE, seq |-> [i \in 1..(lv + 1) |-> i]]

\* calc_multi_indices (lines 748-779)
SparseMultiIndices ==
    /\ quad.stage = "multi_indices"
    /\ LET name == quad.grid_type
           os   == OrderSequence(name, quad.level, quad.order_sequence_type)
           ls   == IF name = "fejer2" THEN Range(1, quad.level + 1)
                   ELSE Range(0, quad.level + 1)
       IN  quad' = IF os.error # "none" THEN SparseRaised(quad, os.error)
                   ELSE IF ~os.present /\ quad.self_verbose = "unset"
                   THEN SparseRaised(quad, "AttributeError")
                   ELSE [stage |-> "sub_grids", kind |-> "sparse",
                         grid_type |-> name, level |-> quad.level,
                         order_sequence_type |-> quad.order_sequence_type,
                         make_grid |-> quad.make_grid, verbose |-> quad.verbose,
                         self_make_grid |-> quad.self_make_grid,
                         self_verbose |-> quad.self_verbose,
                         level_sequence |-> ls,
                         order_sequence |-> os.seq,
                         has_order_sequence |-> os.present,
                         done_levels |-> 0,
                         knots_l |-> <<<<0>>>>, weights_l |-> <<0>>,
                         knots_l_1 |-> <<<<0>>>>, weights_l_1 |-> <<0>>,
                         dl_k |-> [l \in 0..quad.level |-> <<<<0>>>>],
                         dl_w |-> [l \in 0..quad.level |-> <<0>>]]
    /\ UNCHANGED <<runvars, gridvars, alg, merge, proj, work>>

\* calc_coords_weights calls calc_tensor_products, which prints a message
\* under verbose=self.verbose before it calls calc_grid (lines 934, 903)
SparseSubGrids ==
    /\ quad.stage = "sub_grids"
    /\ quad' = IF quad.self_verbose = "unset" THEN SparseRaised(quad, "AttributeError")
               ELSE [quad EXCEPT !.stage = "grid"]
    /\ UNCHANGED <<runvars, gridvars, alg, merge, proj, work>>

\* a python list index: i >= 0 counts from the front, i < 0 from the back
PyHas(seq, i) == IF i >= 0 THEN i < Len(seq) ELSE -i <= Len(seq)

PyAt(seq, i) == IF i >= 0 THEN seq[i + 1] ELSE seq[Len(seq) + i + 1]

\* the two rules of one level (lines 840-875): the rule of the level and the
\* rule of the level below, each read from order_sequence; a name without a
\* branch leaves the four values as they are
LevelRules(q, i_level) ==
    LET name  == q.grid_type
        first == IF name = "fejer2" THEN i_level - 1 ELSE i_level
        stale == [error |-> "none",
                  knots_l |-> q.knots_l, weights_l |-> q.weights_l,
                  knots_l_1 |-> q.knots_l_1, weights_l_1 |-> q.weights_l_1]
        fail(err) == [stale EXCEPT !.error = err]
    IN  IF name = UnknownName THEN stale
        ELSE IF ~q.has_order_sequence THEN fail("IndexError")
        ELSE IF ~PyHas(q.order_sequence, first) THEN fail("IndexError")
        ELSE LET rule_l == Quadrature(name, PyAt(q.order_sequence, first))
             IN  IF rule_l.raised # "none" THEN fail(rule_l.raised)
                 ELSE IF ~PyHas(q.order_sequence, first - 1) THEN fail("IndexError")
                 ELSE LET rule_l_1 == Quadrature(name, PyAt(q.order_sequence, first - 1))
                      IN  IF rule_l_1.raised # "none" THEN fail(rule_l_1.raised)
                          ELSE [error |-> "none",
                                knots_l |-> rule_l.knots,
                                weights_l |-> rule_l.weights,
                                knots_l_1 |-> rule_l_1.knots,
                                weights_l_1 |-> rule_l_1.weights]

\* one pass of the loop over the levels in calc_grid (lines 838-885)
SparseLevel ==
    /\ quad.stage = "grid"
    /\ quad.done_levels < Len(quad.level_sequence)
    /\ LET i_level == quad.level_sequence[quad.done_levels + 1]
           r       == LevelRules(quad, i_level)
           lowest  == \/ (i_level = 0 /\ quad.grid_type # "fejer2")
                      \/ (i_level = 1 /\ quad.grid_type = "fejer2")
       IN  quad' = IF r.error # "none" THEN SparseRaised(quad, r.error)
                   ELSE [quad EXCEPT
                           !.done_levels = @ + 1,
                           !.knots_l = r.knots_l, !.weights_l = r.weights_l,
                           !.knots_l_1 = r.knots_l_1, !.weights_l_1 = r.weights_l_1,
                           !.dl_k[i_level] = IF lowest THEN r.knots_l
                                             ELSE r.knots_l \o r.knots_l_1,
                           !.dl_w[i_level] = IF lowest THEN r.weights_l
                                             ELSE r.weights_l \o
                                                  [i \in 1..Len(r.weights_l_1) |-> -r.weights_l_1[i]]]
    /\ UNCHANGED <<runvars, gridvars, alg, merge, proj, work>>

\* calc_l_level for one dimension (lines 792-806) with level_max = level
LLevel(q) ==
    IF q.grid_type = "fejer2" THEN Range(1, q.level + 1) ELSE Range(0, q.level + 1)

RECURSIVE Stack(_, _, _)
Stack(q, rows, j) ==
    IF j > Len(rows) THEN <<>>
    ELSE LET ks == q.dl_k[rows[j]]
             ws == q.dl_w[rows[j]]
         IN  [i \in 1..Len(ks) |-> [k |-> ks[i], w |-> ws[i]]] \o Stack(q, rows, j + 1)

\* the rest of calc_tensor_products and calc_coords_weights and the end of
\* the constructor (lines 905-980, 738-742): the sub-grids of all levels are
\* stacked, merged and filtered, and the points are counted
SparseMerge ==
    /\ quad.stage = "grid"
    /\ quad.done_levels = Len(quad.level_sequence)
    /\ LET rows    == LLevel(quad)
           kept    == MergedOf(Stack(quad, rows, 1)).kept
           uneven  == \E j \in 1..Len(rows) :
                          Len(quad.dl_k[rows[j]]) # Len(quad.dl_w[rows[j]])
       IN  quad' = IF Len(rows) = 0 THEN SparseRaised(quad, "ValueError")
                   ELSE IF uneven THEN SparseRaised(quad, "IndexError")
                   ELSE
                        [stage |-> "done", kind |-> "sparse", grid_type |-> quad.grid_type,
                        level |-> quad.level, order_sequence_type |-> quad.order_sequence_type,
                        make_grid |-> quad.make_grid, verbose |-> quad.verbose,
                        self_make_grid |-> quad.self_make_grid, self_verbose |-> quad.self_verbose,
                        order_sequence |-> quad.order_sequence,
                        points |-> kept, n_grid |-> Len(kept), n_coords_id |-> Len(kept)]
    /\ UNCHANGED <<runvars, gridvars, alg, merge, proj, work>>

InitQuad ==
    /\ RunIdle /\ GridIdle
    /\ alg = NoAlg /\ merge = NoMerge
    /\ proj = NoProj /\ work = NoWork
    /\ quad \in RuleCalls \cup TensorCalls \cup SparseCalls

NextQuad ==
    \/ RuleCall
    \/ TensorDim
    \/ TensorFinish
    \/ SparseParams
    \/ SparseMultiIndices
    \/ SparseSubGrids
    \/ SparseLevel
    \/ SparseMerge

SpecQuad == InitQuad /\ [][NextQuad]_vars

\* ------------------------------------------------------------------------
\* C24 (as stated): every 1-D quadrature routine called with a supported
\* node count n returns exactly n knots and exactly n weights.  Every n >= 1
\* is a supported count, except for Patterson, which supports 1, 3, 7, 15, 31.
RuleReturned == quad.kind = "rule" /\ quad.stage = "returned"

SupportedCount ==
    quad.family = "patterson" => quad.n \in {1, 3, 7, 15, 31}

C24_Original ==
    (RuleReturned /\ SupportedCount)
        => /\ quad.rule.raised = "none"
           /\ Len(quad.rule.knots) = quad.n
           /\ Len(quad.rule.weights) = quad.n

\* the same statement for the routines other than Clenshaw-Curtis
C24_OtherFamilies ==
    (RuleReturned /\ SupportedCount /\ quad.family # "clenshaw_curtis")
        => /\ quad.rule.raised = "none"
           /\ Len(quad.rule.knots) = quad.n
           /\ Len(quad.rule.weights) = quad.n

\* ------------------------------------------------------------------------
\* C25: get_quadrature_patterson_1d(n) returns a rule only for n in
\* {1, 3, 7, 15, 31}; for every other n it raises NotImplementedError and
\* returns no knots and no weights.
PattersonReturned == RuleReturned /\ quad.family = "patterson"

C25_PattersonCounts ==
    PattersonReturned
        => IF quad.n \in {1, 3, 7, 15, 31}
           THEN /\ quad.rule.raised = "none"
                /\ Len(quad.rule.knots) = quad.n
                /\ Len(quad.rule.weights) = quad.n
           ELSE /\ quad.rule.raised = "NotImplementedError"
                /\ quad.rule.knots = <<>>
                /\ quad.rule.weights = <<>>

\* a call with a count between two supported counts has been refused
C25_Witness ==
    /\ PattersonReturned
    /\ quad.n = 2
    /\ quad.rule.raised = "NotImplementedError"

\* ------------------------------------------------------------------------
\* C23 (as stated): for dim = 1 a SparseGrid at level L consists of exactly
\* the knots of the level-L rule of its family, with that rule's weights
\* divided by 2: the constructor completes, and what the lower levels
\* contribute has cancelled and is dropped.
SparseCall == quad.kind = "sparse"

DefaultKeys == quad.make_grid = "absent" /\ quad.verbose = "absent"

\* the families calc_grid has a branch for, at a level the family starts at
SparseFamily ==
    /\ quad.grid_type # UnknownName
    /\ quad.grid_type = "fejer2" => quad.level >= 1

\* the order of the rule of the highest level, as calc_grid reads it
TopOrder ==
    IF quad.grid_type = "fejer2" THEN PyAt(quad.order_sequence, quad.level - 1)
    ELSE PyAt(quad.order_sequence, quad.level)

PointsOfRule(rule) ==
    {[k |-> rule.knots[i], w |-> [num |-> rule.weights[i], den |-> TwoToThe(MergeDim)]] :
        i \in 1..Len(rule.knots)}

IsTopRule ==
    /\ Len(quad.order_sequence) >= 1
    /\ LET rule == Quadrature(quad.grid_type, TopOrder)
       IN  /\ rule.raised = "none"
           /\ Len(rule.weights) = Len(rule.knots)
           /\ quad.n_grid = Len(rule.knots)
           /\ {quad.points[j] : j \in 1..Len(quad.points)} = PointsOfRule(rule)

C23_Original ==
    (SparseCall /\ DefaultKeys /\ SparseFamily)
        => /\ quad.stage # "raised"
           /\ quad.stage = "done" => IsTopRule

\* the same statement for the configurations whose constructor completes:
\* Jacobi and Hermite with either order sequence, Fejer type 2 with 'lin'
C23_Completing ==
    (/\ SparseCall /\ DefaultKeys /\ SparseFamily
     /\ \/ quad.grid_type \in {"jacobi", "hermite"}
        \/ quad.grid_type = "fejer2" /\ quad.order_sequence_type = "lin")
        => /\ quad.stage # "raised"
           /\ quad.stage = "done" => IsTopRule

\* a grid of level 2 has been built and more candidates than points existed
C23_Reached ==
    /\ SparseCall /\ quad.stage = "done" /\ quad.level = 2
    /\ quad.grid_type = "jacobi" /\ quad.order_sequence_type = "exp"
    /\ quad.n_grid = 5

\* ------------------------------------------------------------------------
\* C27 (as stated): constructing a TensorGrid or a SparseGrid with a
\* grid-type name that is not a supported quadrature rule raises an error;
\* the constructor never completes with such a name.
UnknownGridType ==
    \/ /\ quad.kind = "tensor"
       /\ \E i \in DOMAIN quad.grid_type : quad.grid_type[i] = UnknownName
    \/ /\ quad.kind = "sparse"
       /\ quad.grid_type = UnknownName

C27_Original == UnknownGridType => quad.stage # "done"

\* ------------------------------------------------------------------------
\* C30 (as stated): SparseGrid accepts the optional keys 'make_grid' and
\* 'verbose'; when either is supplied the constructor uses the supplied
\* value and completes.  Stated for the families whose constructor completes
\* when both keys are absent.
SuppliedKeys == quad.make_grid # "absent" \/ quad.verbose # "absent"

C30_Original ==
    (SparseCall /\ quad.grid_type \in {"jacobi", "hermite"} /\ SuppliedKeys)
        => /\ quad.stage # "raised"
           /\ quad.stage \notin {"params", "raised"}
                 => /\ quad.make_grid # "absent" => quad.self_make_grid = quad.make_grid
                    /\ quad.verbose # "absent" => quad.self_verbose = quad.verbose

\* with both keys absent these constructors never raise
C30_AbsentKeys ==
    (SparseCall /\ quad.grid_type \in {"jacobi", "hermite"} /\ DefaultKeys)
        => quad.stage # "raised"

\* ------------------------------------------- constructors of the algorithms
\* Static(problem, options, grid, validation) and
\* RegAdaptive(problem, options, validation), and the start of their run().
\* An options key is "absent" or names its value; n_evals counts the calls of
\* the evaluator (com.run, create_validation_set).
AlgCalls ==
    {a \in
        {[stage |-> "new", cls |-> c, method |-> me, solver |-> so, settings |-> se,
          order |-> od, order_max |-> om, fn_results |-> fn, validation |-> va,
          error_type |-> et, n_cpu |-> nc, file_exists |-> fe,
          self_validation |-> "unset", self_grid |-> "unset", self_n_cpu |-> "unset",
          gpc_validation |-> "unset", n_evals |-> 0,
          dir_checked |-> FALSE, removed |-> FALSE, written |-> FALSE,
          error |-> "none", raised_in |-> "none"] :
            c \in {"Static", "MEStatic", "RegAdaptive"},
            me \in {"absent", "reg", "quad", "foo"},
            so \in {"absent", "Moore-Penrose", "OMP", "LarsLasso"},
            se \in {"absent", "neither", "n_coeffs_sparse", "sparsity", "both"},
            od \in {"absent", "given"}, om \in {"absent", "given"},
            fn \in {"absent", "None", "path"},
            va \in {"none", "passed"}, et \in {"loocv", "nrmsd"},
            nc \in {"absent", "given"}, fe \in BOOLEAN} :
        \* RegAdaptive reads neither 'method' nor 'order' nor 'order_max'
        /\ a.cls = "RegAdaptive"
              => a.method = "absent" /\ a.order = "absent" /\ a.order_max = "absent"
        /\ a.file_exists => a.fn_results = "path"
        \* MEStatic is followed through its constructor only
        /\ a.cls = "MEStatic"
              => /\ a.validation = "none" /\ a.error_type = "loocv"
                 /\ a.n_cpu = "absent" /\ ~a.file_exists}

Raise(a, err, where) ==
    [a EXCEPT !.stage = "raised", !.error = err, !.raised_in = where]

\* Algorithm.__init__(problem, options, grid=None, validation=None) as the
\* subclasses call it, with validation as the third positional argument
\* (lines 40-49, 198, 493, 1797)
AlgorithmInit ==
    /\ alg.stage = "new"
    /\ LET a == alg
       IN  alg' =
           LET bound == [a EXCEPT !.self_validation = "none",
                                  !.self_grid = IF a.validation = "passed" THEN "validation"
                                                ELSE "none"]
           IN  IF a.fn_results = "absent" THEN Raise(bound, "KeyError", "init")
               ELSE IF a.fn_results = "None" THEN Raise(bound, "TypeError", "init")
               ELSE [bound EXCEPT !.stage = "base", !.dir_checked = TRUE]
    /\ UNCHANGED <<runvars, gridvars, quad, merge, proj, work>>

\* the test of the OMP settings (lines 216-218 and 512-514): the settings are
\* missing, or not (one key is missing or the other key is missing)
OMPSettingsRefused(se) ==
    \/ se = "absent"
    \/ ~(se \notin {"n_coeffs_sparse", "both"} \/ se \notin {"sparsity", "both"})

\* Static.__init__ after the base constructor (lines 199-265), and
\* MEStatic.__init__, which has the same statements (lines 494-568)
StaticInit ==
    /\ alg.stage = "base" /\ alg.cls \in {"Static", "MEStatic"}
    /\ LET a == alg
       IN  alg' =
           LET g  == [a EXCEPT !.self_grid = "grid"]
               s3 == IF g.solver = "Moore-Penrose" THEN [g EXCEPT !.settings = "None"] ELSE g
               s4 == IF g.method = "quad"
                     THEN [s3 EXCEPT !.solver = "NumInt", !.settings = "None"] ELSE s3
               s8 == [s4 EXCEPT !.stage = "constructed",
                                !.self_n_cpu = IF s4.n_cpu = "given" THEN "given" ELSE "unset"]
           IN  IF g.method = "absent" THEN Raise(g, "AssertionError", "init")
               ELSE IF g.solver = "absent" THEN Raise(g, "KeyError", "init")
               ELSE IF g.method = "reg" /\ g.solver \notin {"Moore-Penrose", "OMP"}
               THEN Raise(g, "AssertionError", "init")
               ELSE IF s4.solver = "OMP" /\ OMPSettingsRefused(s4.settings)
               THEN Raise(s4, "AssertionError", "init")
               ELSE IF s4.solver = "LarsLasso" /\ s4.settings = "absent"
               THEN Raise(s4, "KeyError", "init")
               ELSE IF s4.order = "absent" THEN Raise(s4, "AssertionError", "init")
               ELSE IF s4.order_max = "absent" THEN Raise(s4, "AssertionError", "init")
               ELSE s8
    /\ UNCHANGED <<runvars, gridvars, quad, merge, proj, work>>

\* RegAdaptive.__init__ after the base constructor (lines 1799-1868)
RegAdaptiveInit ==
    /\ alg.stage = "base" /\ alg.cls = "RegAdaptive"
    /\ LET a == alg
       IN  alg' =
           LET n  == [a EXCEPT !.self_n_cpu = IF a.n_cpu = "given" THEN "given" ELSE "unset"]
               s1 == IF n.solver = "Moore-Penrose" THEN [n EXCEPT !.settings = "None"] ELSE n
           IN  IF n.solver = "absent" THEN Raise(n, "AssertionError", "init")
               ELSE IF s1.solver = "OMP" /\ s1.settings = "absent"
               THEN Raise(s1, "AssertionError", "init")
               ELSE IF s1.solver = "LarsLasso" /\ s1.settings = "absent"
               THEN Raise(s1, "KeyError", "init")
               ELSE IF s1.solver = "LarsLasso"
               THEN [s1 EXCEPT !.stage = "constructed", !.settings = "alpha"]
               ELSE [s1 EXCEPT !.stage = "constructed"]
    /\ UNCHANGED <<runvars, gridvars, quad, merge, proj, work>>

\* the first statements of run(): the name of the results file is split and
\* an existing .hdf5 file is removed (lines 281-284 and 1884-1887)
RunStart ==
    /\ alg.stage = "constructed" /\ alg.cls # "MEStatic"
    /\ LET a == alg
       IN  alg' =
           IF a.fn_results # "path" THEN Raise(a, "TypeError", "run")
           ELSE [a EXCEPT !.stage = "running", !.removed = a.file_exists]
    /\ UNCHANGED <<runvars, gridvars, quad, merge, proj, work>>

\* the method names Static.run creates a gPC object for (lines 287-306)
KnownMethodsAny == {"reg", "quad", "foo"}
KnownMethods == {"reg", "quad"}

\* Static.run from the creation of the gPC object to the evaluation of the
\* grid (lines 287-333)
StaticCreate ==
    /\ alg.stage = "running" /\ alg.cls = "Static"
    /\ LET a == alg
       IN  alg' =
           IF a.method \notin KnownMethods THEN Raise(a, "AssertionError", "run")
           ELSE LET g == [a EXCEPT !.gpc_validation = a.self_validation]
                IN  IF g.self_n_cpu = "unset" THEN Raise(g, "AttributeError", "run")
                    ELSE [g EXCEPT !.stage = "evaluated", !.n_evals = @ + 1]
    /\ UNCHANGED <<runvars, gridvars, quad, merge, proj, work>>

\* Static.run after the evaluation: a validation set is created when the
\* gPC object has none, and the results are written (lines 355-407)
Finish(a) ==
    [a EXCEPT !.stage = "done", !.written = (a.fn_results = "path")]

StaticFinish ==
    /\ alg.stage = "evaluated" /\ alg.cls = "Static"
    /\ LET a == alg
       IN  alg' =
           IF a.error_type = "nrmsd" /\ a.gpc_validation = "none"
           THEN Finish([a EXCEPT !.gpc_validation = "created", !.n_evals = @ + 1])
           ELSE Finish(a)
    /\ UNCHANGED <<runvars, gridvars, quad, merge, proj, work>>

\* RegAdaptive.run from Computation(n_cpu=self.n_cpu) to the validation set
\* (lines 1897-1912)
RegAdaptiveCreate ==
    /\ alg.stage = "running" /\ alg.cls = "RegAdaptive"
    /\ LET a == alg
       IN  alg' =
           IF a.self_n_cpu = "unset" THEN Raise(a, "AttributeError", "run")
           ELSE LET g == [a EXCEPT !.gpc_validation = a.self_validation]
                IN  IF g.error_type = "nrmsd" /\ g.self_validation # "passed"
                    THEN [g EXCEPT !.stage = "evaluated", !.gpc_validation = "created",
                                   !.n_evals = @ + 1]
                    ELSE [g EXCEPT !.stage = "evaluated"]
    /\ UNCHANGED <<runvars, gridvars, quad, merge, proj, work>>

\* the adaptive loop of RegAdaptive.run as one step: the grid is evaluated
\* and the results are written (lines 1914-2170)
RegAdaptiveFinish ==
    /\ alg.stage = "evaluated" /\ alg.cls = "RegAdaptive"
    /\ alg' = Finish([alg EXCEPT !.n_evals = @ + 1])
    /\ UNCHANGED <<runvars, gridvars, quad, merge, proj, work>>

InitConfig ==
    /\ RunIdle /\ GridIdle
    /\ quad = NoQuad /\ merge = NoMerge
    /\ proj = NoProj /\ work = NoWork
    /\ alg \in AlgCalls

NextConfig ==
    \/ AlgorithmInit
    \/ StaticInit
    \/ RegAdaptiveInit
    \/ RunStart
    \/ StaticCreate
    \/ StaticFinish
    \/ RegAdaptiveCreate
    \/ RegAdaptiveFinish

SpecConfig == InitConfig /\ [][NextConfig]_vars

\* ------------------------------------------------------------------------
\* C26: configuration errors are raised before any model evaluation: Static
\* without 'method', 'order' or 'order_max', Static with method 'reg' and a
\* solver other than 'Moore-Penrose' or 'OMP', an unknown method name, and
\* RegAdaptive without 'solver' each raise an error, in the constructor or at
\* the method dispatch of run(), and the evaluator has not been called.
ConstructorError ==
    \/ /\ alg.cls = "Static"
       /\ \/ alg.method = "absent"
          \/ alg.order = "absent"
          \/ alg.order_max = "absent"
          \/ alg.method = "reg" /\ alg.solver \notin {"Moore-Penrose", "OMP"}
    \/ /\ alg.cls = "RegAdaptive"
       /\ alg.solver = "absent"

UnknownMethod ==
    alg.cls = "Static" /\ alg.method \notin {"absent", "reg", "quad"}

ConfigError == alg.stage # "none" /\ (ConstructorError \/ UnknownMethod)

NotEvaluated == alg.n_evals = 0 /\ alg.stage \notin {"evaluated", "done"}

RaisedAtCheck ==
    /\ (ConfigError /\ ConstructorError /\ alg.stage = "base")
          => alg'.stage = "raised"
    /\ (ConfigError /\ alg.stage = "running")
          => alg'.stage = "raised" /\ alg'.error = "AssertionError"

C26_ConfigErrorsBeforeEvaluation ==
    [](ConfigError => NotEvaluated) /\ [][RaisedAtCheck]_vars

\* an unknown method name has been refused by run(), nothing was evaluated
C26_Witness ==
    /\ alg.stage = "raised" /\ alg.raised_in = "run"
    /\ alg.cls = "Static" /\ alg.method = "foo"
    /\ alg.error = "AssertionError"
    /\ alg.n_evals = 0

\* ------------------------------------------------------------------------
\* C28 (as stated): options['fn_results'] is optional with default None:
\* an otherwise correctly configured RegAdaptive or Static without
\* 'fn_results' (or with fn_results None) is constructed and runs without an
\* error, and no result file is removed or written.
WellConfigured ==
    /\ alg.stage # "none"
    /\ alg.n_cpu = "given"
    /\ alg.cls = "RegAdaptive" => alg.solver = "Moore-Penrose"
    /\ alg.cls = "Static"
          => /\ alg.method \in {"reg", "quad"}
             /\ alg.solver \in {"Moore-Penrose", "NumInt"}
             /\ alg.order = "given" /\ alg.order_max = "given"

C28_Original ==
    (WellConfigured /\ alg.fn_results \in {"absent", "None"})
        => /\ alg.stage # "raised"
           /\ ~alg.removed
           /\ ~alg.written

\* with the name of a results file the same configurations run to the end
C28_WithPath ==
    (WellConfigured /\ alg.fn_results = "path") => alg.stage # "raised"

\* ------------------------------------------------------------------------
\* C29 (as stated): a validation set passed to the constructor of Static or
\* RegAdaptive is stored as the algorithm's validation set and handed to the
\* gPC object, no new validation set is created, and the grid attribute is
\* never the validation set.
C29_Original ==
    (alg.stage \notin {"none", "new", "raised"} /\ alg.validation = "passed")
        => /\ alg.self_validation = "passed"
           /\ alg.self_grid # "validation"
           /\ alg.gpc_validation \in {"unset", "passed"}

\* without a validation argument a validation set is created only for nrmsd
C29_NonePassed ==
    (alg.stage = "done" /\ alg.validation = "none")
        => (alg.gpc_validation = "created" <=> alg.error_type = "nrmsd")

\* ------------------------------------------------------------------------
\* C31 (as stated): when the first fit after a basis extension (other than
\* the very first pass of the run) yields an error strictly lower than the
\* previously recorded error, the sampling loop exits immediately and no
\* grid point is added and no model evaluation made for that interaction
\* level.
ImprovedAfterExtension ==
    /\ pc = "sample"
    /\ extended_basis /\ ~first_iter
    /\ passes = 0
    /\ Len(gpc_error') = Len(gpc_error) + 1
    /\ Len(gpc_error) >= 1
    /\ gpc_error'[Len(gpc_error')] < gpc_error[Len(gpc_error)]

NothingSampled == n_grid' = n_grid /\ i_grid' = i_grid /\ res' = res

NextLevelFollows ==
    pc = "after_sample"
        => /\ pc' = "inner"
           /\ interaction_order_current' = interaction_order_current + 1
           /\ UNCHANGED <<n_grid, i_grid, res, gpc_error>>

AddedRows == {basis'[j] : j \in (Len(basis) + 1)..Len(basis')}

AddedAtOwnLevel ==
    \A mi \in AddedRows :
        /\ InteractionOrderOf(mi) = interaction_order_current
        /\ mi \notin SeqToSet(basis)
        /\ Cardinality({j \in (Len(basis) + 1)..Len(basis') : basis'[j] = mi}) = 1

AdmissibleAt(k) ==
    {mi \in SeqToSet(Tuples(options.dim, k)) :
        /\ InNorm(mi, k, options.order_max_norm_inv)
        /\ InteractionOrderOf(mi) <= options.interaction_order}

\* the sub-iteration loop of order - 1 has ended and the run has not converged
LevelsDone ==
    /\ pc = "outer"
    /\ order > options.order_start
    /\ eps > options.eps

C32_PartitionByInteractionOrder ==
    /\ [][AddedAtOwnLevel]_vars
    /\ [](LevelsDone => SeqToSet(basis) = AdmissibleAt(order - 1))

\* two orders above the start order have been gone through in two dimensions
C32_Witness ==
    /\ LevelsDone
    /\ options.dim = 2 /\ options.interaction_order = 2
    /\ options.order_start = 0 /\ order = 3
    /\ Len(basis) = 6

\* ------------------------------------------------------------------------
\* C33 (as stated): at every fit made by run() (matrix_ratio >= 1, adaptive
\* sampling on or off) the number of grid points is at least the number of
\* basis functions.
FitMade == fit.n_basis > 0

RatioAtLeastOne == options.matrix_ratio.num >= options.matrix_ratio.den

C33_Original ==
    (FitMade /\ RatioAtLeastOne) => fit.n_grid >= fit.n_basis

\* the same statement for runs without adaptive sampling
C33_WithoutAdaptiveSampling ==
    (FitMade /\ RatioAtLeastOne /\ ~options.adaptive_sampling)
        => fit.n_grid >= fit.n_basis

\* ------------------------------------------- RegAdaptiveProjection.run
\* Fits of one run that the specification of the projection variant follows.
MaxProjPasses == 4

\* RegAdaptiveProjection.run at the head of its order loop, after the initial
\* simulations on n_grid_gradient points, the first projection matrix (its
\* number of rows is dim_reduced) and the first reduced gPC object of order
\* order_start.  The start orders are those for which the rebuild at
\* order - 1 asks Reg for a non-negative order.
ProjCalls ==
    {[stage |-> "outer",
      options |-> [dim |-> 2, order_max_norm_inv |-> 1,
                   order_start |-> os, order_end |-> 3,
                   interaction_order |-> io, eps |-> 1,
                   adaptive_sampling |-> ad,
                   matrix_ratio |-> [num |-> 2, den |-> 1]],
      dim_reduced |-> dr,
      order |-> os,
      eps |-> 2,
      basis |-> InitBasis(dr, os, 1, io),
      multi_indices_all_new |-> <<>>,
      interaction_order_current |-> 0,
      interaction_order_current_max |-> 0,
      i_grid |-> 2,
      extended_basis |-> FALSE,
      first_iter |-> TRUE,
      error |-> <<>>,
      eps_ref |-> 0,
      delta_above |-> TRUE,
      rebuilt |-> FALSE,
      passes |-> 0] :
        os \in {1, 2}, io \in {1, 2}, ad \in BOOLEAN, dr \in {1, 2}}

\* Head of the order loop: the candidates of the order in the reduced
\* dimension, the largest interaction level, and the level of the start order.
ProjOuter ==
    /\ proj.stage = "outer"
    /\ OuterCond(proj.eps, proj.order, proj.options)
    /\ LET opt == proj.options
           ioc_max == Min2(Min2(proj.order, opt.interaction_order), proj.dim_reduced)
       IN  proj' = [proj EXCEPT
             !.stage = "inner",
             !.multi_indices_all_new =
                 MultiIndicesAllNew(proj.dim_reduced, proj.order,
                                    opt.order_max_norm_inv, proj.basis),
             !.interaction_order_current_max = ioc_max,
             !.interaction_order_current =
                 IF proj.order = opt.order_start
                 THEN Min2(Min2(proj.dim_reduced, opt.interaction_order), ioc_max)
                 ELSE @,
             !.rebuilt = FALSE]
    /\ UNCHANGED <<runvars, gridvars, alg, quad, merge, work>>

\* The order loop ends: com.close() and the final solve.
ProjDone ==
    /\ proj.stage = "outer"
    /\ ~OuterCond(proj.eps, proj.order, proj.options)
    /\ proj' = [proj EXCEPT !.stage = "done", !.rebuilt = FALSE]
    /\ UNCHANGED <<runvars, gridvars, alg, quad, merge, work>>

\* Entry of the sampling loop: delta_eps = delta_eps_target + 1, and eps_ref
\* is the last error when there is one.
ProjEnterSampling(p) ==
    [p EXCEPT !.stage = "sample",
              !.delta_above = TRUE,
              !.eps_ref = IF p.error # <<>> THEN Last(p.error) ELSE @,
              !.rebuilt = FALSE]

\* Sub-iteration of the start order: nothing is added to the basis.
ProjInnerStart ==
    /\ proj.stage = "inner"
    /\ InnerCond(proj.interaction_order_current, proj.interaction_order_current_max,
                 proj.eps, proj.options)
    /\ proj.order = proj.options.order_start
    /\ proj' = ProjEnterSampling(proj)
    /\ UNCHANGED <<runvars, gridvars, alg, quad, merge, work>>

\* Sub-iteration that finds no candidate of the current interaction level.
ProjInnerSkip ==
    /\ proj.stage = "inner"
    /\ InnerCond(proj.interaction_order_current, proj.interaction_order_current_max,
                 proj.eps, proj.options)
    /\ proj.order # proj.options.order_start
    /\ ~AnyNonZero(MultiIndicesAdded(proj.multi_indices_all_new,
                                     proj.interaction_order_current))
    /\ proj' = [proj EXCEPT !.interaction_order_current = @ + 1, !.rebuilt = FALSE]
    /\ UNCHANGED <<runvars, gridvars, alg, quad, merge, work>>

\* Sub-iteration that extends the basis by the candidates of the current
\* interaction level.
ProjInnerExtend ==
    /\ proj.stage = "inner"
    /\ InnerCond(proj.interaction_order_current, proj.interaction_order_current_max,
                 proj.eps, proj.options)
    /\ proj.order # proj.options.order_start
    /\ LET multi_indices_added ==
               MultiIndicesAdded(proj.multi_indices_all_new,
                                 proj.interaction_order_current)
       IN  /\ AnyNonZero(multi_indices_added)
           /\ proj' = ProjEnterSampling(
                  [proj EXCEPT !.basis = ExtendBasis(@, multi_indices_added),
                               !.extended_basis = TRUE])
    /\ UNCHANGED <<runvars, gridvars, alg, quad, merge, work>>

\* The sub-iteration loop ends: the level is reset and the order increased.
ProjInnerEnd ==
    /\ proj.stage = "inner"
    /\ ~InnerCond(proj.interaction_order_current, proj.interaction_order_current_max,
                  proj.eps, proj.options)
    /\ proj' = [proj EXCEPT !.stage = "outer",
                            !.interaction_order_current = 1,
                            !.order = @ + 1,
                            !.rebuilt = FALSE]
    /\ UNCHANGED <<runvars, gridvars, alg, quad, merge, work>>

\* The gPC object built anew for another reduced dimension: Reg of order
\* order - 1, then the candidates of the current order whose interaction
\* level is at most the current one.
ProjRebuild(dim_new, ord, opt, ioc) ==
    LET b0      == InitBasis(dim_new, ord - 1, opt.order_max_norm_inv,
                             opt.interaction_order)
        all_new == MultiIndicesAllNew(dim_new, ord, opt.order_max_norm_inv, b0)
        added   == SelectSeq(all_new, LAMBDA mi : InteractionOrderOf(mi) <= ioc)
    IN  [basis |-> ExtendBasis(b0, added), multi_indices_all_new |-> all_new]

\* One pass of the sampling loop.  When grid points are added the projection
\* matrix is determined anew from all gradients; the number of its rows is
\* any dimension from 1 to dim.  The fit reports any error.
ProjPass ==
    /\ proj.stage = "sample"
    /\ proj.delta_above /\ proj.eps > proj.options.eps
    /\ proj.passes < MaxProjPasses
    /\ \E e \in {1, 10, 20}, dr \in 1..proj.options.dim :
        LET opt        == proj.options
            n_basis    == Len(proj.basis)
            target ==
                IF proj.extended_basis /\ opt.adaptive_sampling THEN proj.i_grid
                ELSE IF opt.adaptive_sampling
                     THEN proj.i_grid + Ceil(DeltaSamplesNum * n_basis, DeltaSamplesDen)
                     ELSE Ceil(n_basis * opt.matrix_ratio.num, opt.matrix_ratio.den)
            extend     == proj.i_grid < target
            dim_new    == IF extend THEN dr ELSE proj.dim_reduced
            changed    == dim_new # proj.dim_reduced
            gpc        == ProjRebuild(dim_new, proj.order, opt,
                                      proj.interaction_order_current)
            err        == IF proj.error = <<>> THEN <<e>>
                          ELSE <<Last(proj.error), e>>
            fresh      == proj.extended_basis \/ proj.first_iter
            improved   == /\ proj.order # opt.order_start
                          /\ proj.extended_basis
                          /\ err[Len(err)] < err[Len(err) - 1]
            leave      == improved \/ ~opt.adaptive_sampling
        IN  proj' = [proj EXCEPT
              !.i_grid = IF extend THEN target ELSE @,
              !.dim_reduced = dim_new,
              !.basis = IF changed THEN gpc.basis ELSE @,
              !.multi_indices_all_new =
                  IF changed THEN gpc.multi_indices_all_new ELSE @,
              !.rebuilt = changed,
              !.eps = e,
              !.error = err,
              !.eps_ref = IF fresh THEN e ELSE @,
              !.delta_above = IF fresh THEN @
                              ELSE DeltaAboveTarget(DeltaEps(err, proj.eps_ref)),
              !.first_iter = FALSE,
              !.extended_basis = IF improved THEN @ ELSE FALSE,
              !.passes = @ + 1,
              !.stage = IF leave THEN "inner" ELSE "sample",
              !.interaction_order_current = IF leave THEN @ + 1 ELSE @]
    /\ UNCHANGED <<runvars, gridvars, alg, quad, merge, work>>

\* The sampling loop ends on its condition; the interaction level is increased.
ProjSampleEnd ==
    /\ proj.stage = "sample"
    /\ ~(proj.delta_above /\ proj.eps > proj.options.eps)
    /\ proj' = [proj EXCEPT !.stage = "inner",
                            !.interaction_order_current = @ + 1,
                            !.rebuilt = FALSE]
    /\ UNCHANGED <<runvars, gridvars, alg, quad, merge, work>>

InitProj ==
    /\ RunIdle /\ GridIdle
    /\ alg = NoAlg /\ quad = NoQuad /\ merge = NoMerge /\ work = NoWork
    /\ proj \in ProjCalls

NextProj ==
    \/ ProjOuter
    \/ ProjDone
    \/ ProjInnerStart
    \/ ProjInnerSkip
    \/ ProjInnerExtend
    \/ ProjInnerEnd
    \/ ProjPass
    \/ ProjSampleEnd

SpecProj == InitProj /\ [][NextProj]_vars

\* C34: in RegAdaptiveProjection.run the number of basis functions of the
\* expansion never decreases from one step of the run to the next, the
\* rebuild of the gPC object for a changed reduced dimension included.
C34_Original ==
    [][Len(proj'.basis) >= Len(proj.basis)]_vars

\* The same for the steps that do not rebuild the gPC object.
C34_WithoutRebuild ==
    [][~proj'.rebuilt => Len(proj'.basis) >= Len(proj.basis)]_vars

\* A rebuild for a larger reduced dimension has happened above the start order.
C34_Rebuilt ==
    /\ proj.stage # "none"
    /\ proj.rebuilt
    /\ proj.order > proj.options.order_start

\* ------------------------------------- extension of a seeded random grid
\* a was generated with a seed and then extended once, with the same seed, to
\* a larger size.
SeededThenExtended(a) ==
    /\ Len(a.hist) = 2
    /\ a.hist[1].name = "RandomGrid"
    /\ a.hist[1].seed # NoSeed
    /\ a.hist[2].name = "extend"
    /\ a.hist[2].seed = a.hist[1].seed
    /\ a.hist[2].n > a.hist[1].n

\* b was generated with the seed of a and the size a was extended to.
FreshOfSameSizeAndSeed(a, b) ==
    b.hist = <<[name |-> "RandomGrid", n |-> a.hist[2].n, seed |-> a.hist[1].seed]>>

\* C35 as stated: a grid generated with a seed and then extended with that
\* seed has the coordinates of a grid freshly generated with that seed and
\* the extended size, and none of its points repeats another of its points.
C35_Original ==
    \A a \in made :
        SeededThenExtended(a) =>
            /\ Cardinality(SeqToSet(a.coords_norm)) = Len(a.coords_norm)
            /\ \A b \in made :
                   FreshOfSameSizeAndSeed(a, b) => a.coords_norm = b.coords_norm

\* ------------------------------------------------------------------------
\* calc_multi_indices has returned: the level sequence and the order sequence
\* of the dimension are in place.
SequencesBuilt == SparseCall /\ quad.stage = "sub_grids"

\* the order the statement assigns to a level
OrderOfLevel(ost, first, lv) ==
    IF ost = "lin" THEN lv + 1
    ELSE IF first THEN 1
    ELSE TwoToThe(lv) + 1

\* the order sequence holds, level by level, the stated orders
OrdersAsStated ==
    /\ quad.has_order_sequence
    /\ Len(quad.order_sequence) = Len(quad.level_sequence)
    /\ \A j \in 1..Len(quad.level_sequence) :
           quad.order_sequence[j] =
               OrderOfLevel(quad.order_sequence_type, j = 1, quad.level_sequence[j])

\* calc_grid, about to handle a level, finds in the order sequence an order
\* for the level and one for its predecessor
OrdersFound ==
    (quad.stage = "grid" /\ quad.done_levels < Len(quad.level_sequence)) =>
        LET i_level == quad.level_sequence[quad.done_levels + 1]
            first   == IF quad.grid_type = "fejer2" THEN i_level - 1 ELSE i_level
        IN  /\ quad.has_order_sequence
            /\ PyHas(quad.order_sequence, first)
            /\ PyHas(quad.order_sequence, first - 1)

\* C36 as stated: for every grid type and order-sequence type
\* calc_multi_indices builds an order sequence with one entry for every level
\* of the level sequence, level + 1 for 'lin' and 2^level + 1 for 'exp' with
\* order 1 at the first level, and calc_grid finds an order for every level
\* and its predecessor.
C36_Original ==
    (SparseCall /\ DefaultKeys) =>
        /\ SequencesBuilt => OrdersAsStated
        /\ OrdersFound

\* the same statement for the grid types other than Fejer type 2 and Patterson
C36_OtherFamilies ==
    (SparseCall /\ DefaultKeys /\ quad.grid_type \notin {"fejer2", "patterson"}) =>
        /\ SequencesBuilt => OrdersAsStated
        /\ OrdersFound

\* ------------------------------------------------------------------------
PattersonExp ==
    /\ SparseCall /\ DefaultKeys
    /\ quad.grid_type = "patterson"
    /\ quad.order_sequence_type = "exp"

\* C37 as stated: for a Patterson dimension with the exponential order
\* sequence the order of level l is 2^(l + 1) - 1 (1, 3, 7, 15, 31), every
\* count requested from get_quadrature_patterson_1d is a Patterson count, and
\* the constructor never stops with the error of an invalid count.
C37_Original ==
    PattersonExp =>
        /\ SequencesBuilt =>
              /\ Len(quad.order_sequence) = Len(quad.level_sequence)
              /\ \A j \in 1..Len(quad.order_sequence) :
                     /\ quad.order_sequence[j] = TwoToThe(quad.level_sequence[j] + 1) - 1
                     /\ quad.order_sequence[j] \in PattersonCounts
        /\ quad.stage = "raised" => quad.error # "NotImplementedError"

\* ------------------------------------------------------------------------
\* A Static or MEStatic constructor has reached the test of the OMP settings
\* and has returned or raised: the solver is 'OMP', the method leaves the
\* solver alone, and no other test of the constructor fails.
OMPChecked ==
    /\ alg.cls \in {"Static", "MEStatic"}
    /\ alg.stage \notin {"none", "new", "base"}
    /\ alg.solver = "OMP"
    /\ alg.method \in {"reg", "foo"}
    /\ alg.fn_results = "path"
    /\ alg.order = "given" /\ alg.order_max = "given"

RejectedByConstructor ==
    alg.stage = "raised" /\ alg.raised_in = "init" /\ alg.error = "AssertionError"

\* C38 as stated: with solver 'OMP' the constructors of Static and MEStatic
\* raise an AssertionError exactly when 'settings' is missing or holds neither
\* 'n_coeffs_sparse' nor 'sparsity'.
C38_Original ==
    OMPChecked => (RejectedByConstructor <=> alg.settings \in {"absent", "neither"})

\* the same statement for settings that are missing or hold exactly one key
C38_MissingOrOneKey ==
    (OMPChecked /\ alg.settings \in {"absent", "n_coeffs_sparse", "sparsity"})
        => (RejectedByConstructor <=> alg.settings = "absent")

\* ---------------------------------------------------------------- Worker.py
\* Calls of Worker.run followed in each worker process.
MaxRuns == 2

\* the worker processes of the pool
Procs == {"p1", "p2"}

\* the queue of process IDs the pool is started with: distinct IDs, as many
\* as there are processes or fewer
QueueSet == {<<0>>, <<0, 1>>, <<1, 0>>, <<2, 0>>, <<1, 2>>}

\* what obj.read_previous_results() returns: None, a row of zeros, or a
\* stored result with a non-zero entry
PreviousSet == {"None", "zeros", "stored"}

\* obj.get_seq_number()
SeqNumberSet == {0, 1}

NoObj == [seq |-> 0, previous |-> "none"]

NoReturn == [seq |-> 0, res |-> "none"]

\* A process before Worker.init: the module has no global process_id yet.
FreshProcess ==
    [pc |-> "start", bound |-> FALSE, process_id |-> 0,
     taken |-> <<>>, obj |-> NoObj, res |-> "none", skip_sim |-> TRUE,
     calls |-> <<>>, simulate_arg |-> <<>>, returned |-> NoReturn, runs |-> 0]

\* queue.get() that leaves the item in the queue
QueuePeek(q) == [item |-> Head(q), rest |-> q]

\* queue.get(): the first item is removed from the queue and returned
QueueGet(q) == [item |-> Head(q), rest |-> Tail(q)]

\* Worker.init(queue) in process p; queue.get() blocks on an empty queue
WorkerInit(p) ==
    /\ work.stage = "pool"
    /\ work.procs[p].pc = "start"
    /\ work.queue # <<>>
    /\ LET got == QueueGet(work.queue)
       IN  work' = [work EXCEPT
             !.queue = got.rest,
             !.procs[p] = [@ EXCEPT !.pc = "ready", !.bound = TRUE,
                                    !.process_id = got.item,
                                    !.taken = Append(@, got.item)]]
    /\ UNCHANGED <<runvars, gridvars, alg, quad, merge, proj>>

\* Worker.run(obj) in a process that never ran Worker.init: the test
\* `process_id is None` reads a global that does not exist
RunUnbound(p) ==
    /\ work.stage = "pool"
    /\ work.procs[p].pc = "start"
    /\ work' = [work EXCEPT !.procs[p] = [@ EXCEPT !.pc = "raised"]]
    /\ UNCHANGED <<runvars, gridvars, alg, quad, merge, proj>>

\* Worker.run(obj) up to res = obj.read_previous_results()
RunRead(p) ==
    /\ work.stage = "pool"
    /\ work.procs[p].pc \in {"ready", "returned"}
    /\ work.procs[p].runs < MaxRuns
    /\ \E sq \in SeqNumberSet, pv \in PreviousSet :
         work' = [work EXCEPT !.procs[p] =
                    [@ EXCEPT !.pc = "read",
                              !.obj = [seq |-> sq, previous |-> pv],
                              !.res = pv,
                              !.skip_sim = TRUE,
                              !.calls = <<"read_previous_results">>,
                              !.simulate_arg = <<>>,
                              !.returned = NoReturn]]
    /\ UNCHANGED <<runvars, gridvars, alg, quad, merge, proj>>

\* NeedsSimulation that tests for None only
NeedsSimulationNoneOnly(r) == r = "None"

\* if res is None or not np.any(res)
NeedsSimulation(r) == r = "None" \/ r = "zeros"

\* res = obj.simulate(process_id)
RunSimulate(p) ==
    /\ work.stage = "pool"
    /\ work.procs[p].pc = "read"
    /\ NeedsSimulation(work.procs[p].res)
    /\ work' = [work EXCEPT !.procs[p] =
                  [@ EXCEPT !.pc = "simulated",
                            !.res = "simulated",
                            !.simulate_arg = <<work.procs[p].process_id>>,
                            !.calls = Append(@, "simulate")]]
    /\ UNCHANGED <<runvars, gridvars, alg, quad, merge, proj>>

\* obj.write_results(res); skip_sim = False
RunWrite(p) ==
    /\ work.stage = "pool"
    /\ work.procs[p].pc = "simulated"
    /\ work' = [work EXCEPT !.procs[p] =
                  [@ EXCEPT !.pc = "written",
                            !.skip_sim = FALSE,
                            !.calls = Append(@, "write_results")]]
    /\ UNCHANGED <<runvars, gridvars, alg, quad, merge, proj>>

\* obj.increment_ctr(), after the branch or past it
RunIncrement(p) ==
    /\ work.stage = "pool"
    /\ \/ work.procs[p].pc = "written"
       \/ work.procs[p].pc = "read" /\ ~NeedsSimulation(work.procs[p].res)
    /\ work' = [work EXCEPT !.procs[p] =
                  [@ EXCEPT !.pc = "counted",
                            !.calls = Append(@, "increment_ctr")]]
    /\ UNCHANGED <<runvars, gridvars, alg, quad, merge, proj>>

\* obj.print_progress(...); return (obj.get_seq_number(), res)
RunReturn(p) ==
    /\ work.stage = "pool"
    /\ work.procs[p].pc = "counted"
    /\ work' = [work EXCEPT !.procs[p] =
                  [@ EXCEPT !.pc = "returned",
                            !.calls = Append(@, "print_progress"),
                            !.returned = [seq |-> work.procs[p].obj.seq,
                                          res |-> work.procs[p].res],
                            !.runs = @ + 1]]
    /\ UNCHANGED <<runvars, gridvars, alg, quad, merge, proj>>

InitWork ==
    /\ RunIdle /\ GridIdle
    /\ alg = NoAlg /\ quad = NoQuad /\ merge = NoMerge /\ proj = NoProj
    /\ \E q \in QueueSet :
         work = [stage |-> "pool", queue |-> q, queue_start |-> q,
                 procs |-> [p \in Procs |-> FreshProcess]]

NextWork ==
    \E p \in Procs :
        \/ WorkerInit(p)
        \/ RunUnbound(p)
        \/ RunRead(p)
        \/ RunSimulate(p)
        \/ RunWrite(p)
        \/ RunIncrement(p)
        \/ RunReturn(p)

SpecWork == InitWork /\ [][NextWork]_vars

\* ------------------------------------------------------------------------
Simulates(pv) == pv \in {"None", "zeros"}

\* the calls of a finished run, in their order
CallsOfRun(pv) ==
    IF Simulates(pv)
    THEN <<"read_previous_results", "simulate", "write_results",
           "increment_ctr", "print_progress">>
    ELSE <<"read_previous_results", "increment_ctr", "print_progress">>

CountOf(calls, name) == Cardinality({j \in 1..Len(calls) : calls[j] = name})

\* C39: Worker.run calls obj.simulate and obj.write_results exactly when
\* obj.read_previous_results returned None or an all-zero result; otherwise
\* the stored result is returned and nothing is simulated or written.  In
\* both cases increment_ctr and print_progress are called once each, after
\* the result is available, and (obj.get_seq_number(), result) is returned.
C39_SimulateWhenNothingStored ==
    \A p \in Procs :
        LET w  == work.procs[p]
            pv == w.obj.previous
        IN  /\ w.pc \notin {"start", "ready", "raised"} =>
                 /\ CountOf(w.calls, "simulate") <= 1
                 /\ CountOf(w.calls, "write_results") <= 1
                 /\ CountOf(w.calls, "increment_ctr") <= 1
                 /\ CountOf(w.calls, "print_progress") <= 1
                 /\ ~Simulates(pv) => /\ CountOf(w.calls, "simulate") = 0
                                      /\ CountOf(w.calls, "write_results") = 0
                 /\ CountOf(w.calls, "increment_ctr") = 1
                       => w.res = IF Simulates(pv) THEN "simulated" ELSE pv
            /\ w.pc = "returned" =>
                 /\ w.calls = CallsOfRun(pv)
                 /\ w.returned = [seq |-> w.obj.seq,
                                  res |-> IF Simulates(pv) THEN "simulated" ELSE pv]

\* a run over an all-zero stored row has simulated, written and returned, and
\* a run over a stored result has returned it
C39_Witness ==
    /\ work.stage = "pool"
    /\ work.procs["p1"].pc = "returned"
    /\ work.procs["p1"].obj.previous = "zeros"
    /\ work.procs["p1"].returned = [seq |-> 1, res |-> "simulated"]
    /\ work.procs["p2"].pc = "returned"
    /\ work.procs["p2"].obj.previous = "stored"
    /\ work.procs["p2"].returned = [seq |-> 0, res |-> "stored"]

\* ------------------------------------------------------------------------
Initialised == {p \in Procs : work.procs[p].bound}

\* C40: every process that executed Worker.init has taken exactly one ID
\* from the queue (the queue has lost one ID per initialised process), no two
\* processes hold the same process_id, and every call of obj.simulate in a
\* process passes the ID that process took.
C40_OwnIdPerProcess ==
    work.stage = "pool" =>
        /\ \A p \in Initialised :
               /\ Len(work.procs[p].taken) = 1
               /\ \E j \in 1..Len(work.queue_start) :
                      work.queue_start[j] = work.procs[p].taken[1]
               /\ work.procs[p].process_id = work.procs[p].taken[1]
               /\ work.procs[p].simulate_arg \in {<<>>, work.procs[p].taken}
        /\ Len(work.queue) + Cardinality(Initialised) = Len(work.queue_start)
        /\ \A p, q \in Initialised :
               p # q => work.procs[p].process_id # work.procs[q].process_id
        /\ \A p \in Procs \ Initialised : work.procs[p].simulate_arg = <<>>

\* both processes took their IDs, the second before the first, and each has
\* simulated under its own ID
C40_Witness ==
    /\ work.stage = "pool"
    /\ work.queue_start = <<2, 0>>
    /\ work.procs["p1"].taken = <<0>>
    /\ work.procs["p2"].taken = <<2>>
    /\ work.procs["p1"].simulate_arg = <<0>>
    /\ work.procs["p2"].simulate_arg = <<2>>
    /\ work.procs["p1"].runs = 2

====
